---- MODULE Spec2Model ----
(***************************************************************************)
(* Cloud/local transfer planning and execution engine of the dashboard:    *)
(* CloudOperationTemplate.execute_operation and its three specialisations  *)
(* (raw download, ML download, ML upload), run against the cached cloud    *)
(* inventory, the live local scan and the two stores, for one coordinate.  *)
(*                                                                         *)
(* Bag names are sequences of tokens: the string "rosbag_2025_0" is        *)
(* <<"rosbag", "_", "a">>, the cloud name "_2025_0" is <<"_", "a">>.       *)
(* A store maps a file identity to its size in bytes; an identity that is  *)
(* not in the DOMAIN does not exist.  Raw identities are bag names, ML     *)
(* identities are <<bag name, file type, file name>>.                      *)
(***************************************************************************)
EXTENDS Integers, Sequences, FiniteSets, TLC

----------------------------------------------------------------------------
(* Bounds *)

\* largest size in bytes of a file present in a store at start-up
MaxSize == 2
\* number of execute_operation calls made on the job
MaxRuns == 2
\* number of blob transfers of one run that do not move the bytes faithfully
MaxFaults == 1

\* calls made on the CloudInventoryService in one behaviour
MaxCalls == 3

\* number of tokens of the longest bag name that is translated
MaxNameLen == 3
\* translations applied in a row to one bag name
MaxHops == 2
\* calls made on the InventoryViewService in one behaviour
MaxViewCalls == 3

----------------------------------------------------------------------------
(* Generic helpers *)

None == <<>>
Some(x) == <<x>>

\* an empty Python dict / a missing result payload
EmptyDict == <<>>

Range(s) == {s[i] : i \in 1..Len(s)}

\* dict.get(key, default)
Get(d, k, default) == IF k \in DOMAIN d THEN d[k] ELSE default

\* d[k] = v on a dict
Put(d, k, v) == [x \in (DOMAIN d) \cup {k} |-> IF x = k THEN v ELSE d[x]]

\* del d[k]
Remove(d, k) == [x \in (DOMAIN d) \ {k} |-> d[x]]

RECURSIVE SumSizes(_)
\* sum(f["size"] for f in files)
SumSizes(files) ==
    IF files = <<>> THEN 0 ELSE Head(files).size + SumSizes(Tail(files))

RECURSIVE SumOver(_, _)
\* sum(d[k] for k in keys)
SumOver(d, keys) ==
    IF keys = {} THEN 0
    ELSE LET k == CHOOSE x \in keys : TRUE IN d[k] + SumOver(d, keys \ {k})

\* the elements of order that satisfy Test, in order
Filter(order, Test(_)) == SelectSeq(order, Test)

----------------------------------------------------------------------------
(* Names *)

CloudA == <<"_", "a">>
CloudB == <<"_", "b">>
LocalA == <<"rosbag", "_", "a">>
LocalB == <<"rosbag", "_", "b">>

\* every bag name of the model in Python's string order ('_' sorts before 'r')
SortedNames == <<CloudA, CloudB, LocalA, LocalB>>

\* sorted(names)
Sorted(names) == Filter(SortedNames, LAMBDA n : n \in names)

\* CoordinatePathBuilder.translate_bag_name_cloud_to_local
translate_bag_name_cloud_to_local(cloud_bag_name) ==
    IF Len(cloud_bag_name) >= 1 /\ cloud_bag_name[1] = "_"
    THEN <<"rosbag">> \o cloud_bag_name
    ELSE cloud_bag_name

\* (a translation that takes the underscore away with the prefix)
LocalToCloudStrippingUnderscore(local_bag_name) ==
    IF Len(local_bag_name) >= 2 /\ local_bag_name[1] = "rosbag" /\ local_bag_name[2] = "_"
    THEN Tail(Tail(local_bag_name))
    ELSE local_bag_name

\* CoordinatePathBuilder.translate_bag_name_local_to_cloud
translate_bag_name_local_to_cloud(local_bag_name) ==
    IF Len(local_bag_name) >= 2 /\ local_bag_name[1] = "rosbag" /\ local_bag_name[2] = "_"
    THEN Tail(local_bag_name)
    ELSE local_bag_name

FileTypes == <<"frames", "labels">>

\* file names inside a bag's frames/ or labels/ directory, in listing order
FileNames == <<"f">>

\* the order in which a listing or a directory walk yields the bags
BagOrder == SortedNames

----------------------------------------------------------------------------
(* State *)

VARIABLES
    job,              \* the TransferJob made by create_transfer_job
    cloudRaw,         \* objects of the raw bucket under the coordinate
    cloudML,          \* objects of the ML bucket under the coordinate
    localRaw,         \* *.bag files of the local raw coordinate directory
    localML,          \* files of the local ML coordinate directory
    localDirs,        \* local directories that exist
    inventory_cache,  \* CloudInventoryService._inventory_cache
    cache_timestamp,  \* CloudInventoryService._cache_timestamp
    is_stale,         \* CloudInventoryService._is_stale
    pc,               \* "idle", or "transferring" inside _execute_transfer
    plan,             \* the TransferPlan being executed
    idx,              \* position of the for loop in plan.files_to_transfer
    results,          \* _execute_transfer: results
    failed,           \* _execute_transfer: failed
    total_bytes,      \* _execute_transfer: total_bytes
    lastResult,       \* the OperationResult returned by the last call
    runs,             \* execute_operation calls started so far
    cache_file,       \* content of CloudInventoryService.cache_file on disk
    rescans,          \* _refresh_inventory calls started so far
    reachable,        \* the bucket types whose bucket can be reached
    calls,            \* the calls made on the CloudInventoryService, in order
    save_pc,          \* "idle", or "writing" inside _save_cache (file opened)
    reader_read,      \* what a second process read from cache_file
    name_trace,       \* a bag name and what the translations made of it, in order
    item,             \* an InventoryItem, with the tags put on it
    inventory_items,  \* InventoryViewService._inventory_items
    view_calls        \* the calls made on the InventoryViewService, in order

storeVars == <<cloudRaw, cloudML, localRaw, localML, localDirs>>
cacheVars == <<inventory_cache, cache_timestamp, is_stale>>
loopVars == <<plan, idx, results, failed, total_bytes>>
fileVars == <<cache_file, rescans>>
serviceVars == <<reachable, calls, save_pc, reader_read>>
jobVars == <<job, pc, loopVars, lastResult, runs>>
viewVars == <<name_trace, item, inventory_items, view_calls>>
vars == <<job, storeVars, cacheVars, pc, loopVars, lastResult, runs, fileVars, serviceVars,
          viewVars>>

----------------------------------------------------------------------------
(* models/state.py, models/operations.py *)

CloudRawStatus(exists, bag_count, bag_names, bag_sizes, total_size) ==
    [exists |-> exists, bag_count |-> bag_count, bag_names |-> bag_names,
     bag_sizes |-> bag_sizes, total_size |-> total_size]

LocalRawStatus(downloaded, bag_count, bag_names, bag_sizes, total_size) ==
    [downloaded |-> downloaded, bag_count |-> bag_count, bag_names |-> bag_names,
     bag_sizes |-> bag_sizes, total_size |-> total_size]

CloudMLStatus(exists, total_samples, bag_files) ==
    [exists |-> exists, total_samples |-> total_samples, bag_files |-> bag_files]

LocalMLStatus(downloaded, total_samples, bag_files) ==
    [downloaded |-> downloaded, total_samples |-> total_samples, bag_files |-> bag_files]

OperationResult(success, result, error, warning, critical) ==
    [success |-> success, result |-> result, error |-> error,
     warning |-> warning, critical |-> critical]

TransferPlan(files_to_transfer, files_to_skip, conflicts, total_size, total_files) ==
    [files_to_transfer |-> files_to_transfer, files_to_skip |-> files_to_skip,
     conflicts |-> conflicts, total_size |-> total_size, total_files |-> total_files]

\* the bags of an ML bag_files mapping, in key order
BagKeys(bag_files) == Filter(BagOrder, LAMBDA b : \E f \in DOMAIN bag_files : f[1] = b)

\* the file names of bag_files[bag][file_type], in key order
FileKeys(bag_files, bag, file_type) ==
    Filter(FileNames, LAMBDA n : <<bag, file_type, n>> \in DOMAIN bag_files)

\* number of label files: a label file is one sample
LabelCount(bag_files) == Cardinality({f \in DOMAIN bag_files : f[2] = "labels"})

----------------------------------------------------------------------------
(* CloudInventoryService: the cache and the coordinate queries *)

\* the fields of the service and its cache file, as a record
CacheNow ==
    [inventory_cache |-> inventory_cache, cache_timestamp |-> cache_timestamp,
     is_stale |-> is_stale, cache_file |-> cache_file, rescans |-> rescans]

\* contents of the cache file: no file, bytes json.load rejects, or a document
NoFile == [kind |-> "absent"]
Unparseable == [kind |-> "corrupt"]
Document(data) == [kind |-> "document", data |-> data]

\* _save_cache: 'cache_version' and 'bucket_names' of the metadata block
CacheVersion == "1.0"
BucketNames == [raw |-> "raw-bucket", ml |-> "ml-bucket"]
BucketTypes == {"raw", "ml"}

\* (a loader that takes unparseable bytes as an empty document)
LoadCacheLenient(file) ==
    IF file.kind = "absent"
    THEN [inventory_cache |-> None, cache_timestamp |-> None]
    ELSE IF file.kind = "corrupt"
    THEN [inventory_cache |-> Some(EmptyDict), cache_timestamp |-> Some(0)]
    ELSE [inventory_cache |-> Some(file.data),
          cache_timestamp |-> IF "metadata" \in DOMAIN file.data
                              THEN Some(file.data.metadata.last_updated)
                              ELSE Some(0)]

\* CloudInventoryService._load_cache: _inventory_cache and _cache_timestamp
\* after it ran on the file content (the time of a file written earlier is 0)
LoadCache(file) ==
    IF file.kind = "absent"
    THEN [inventory_cache |-> None, cache_timestamp |-> None]
    ELSE IF file.kind = "corrupt"
    THEN [inventory_cache |-> None, cache_timestamp |-> None]
    ELSE [inventory_cache |-> Some(file.data),
          cache_timestamp |-> IF "metadata" \in DOMAIN file.data
                              THEN Some(file.data.metadata.last_updated)
                              ELSE Some(0)]

\* CloudInventoryService._should_refresh_cache on the fields c
\* (`self._inventory_cache is {}` compares identities and is never true)
ShouldRefresh(c) ==
    \/ c.is_stale
    \/ c.inventory_cache = None
    \/ c.cache_timestamp = None

\* CloudInventoryService._should_refresh_cache
ShouldRefreshCache == ShouldRefresh(CacheNow)

\* objects of the bucket of one type
Bucket(bucket_type) == IF bucket_type = "raw" THEN cloudRaw ELSE cloudML

\* (a scan that answers a listing failure with the bucket's cached entries)
ScanBucketKeepingCached(bucket_type) ==
    IF bucket_type \in reachable THEN Bucket(bucket_type)
    ELSE IF inventory_cache # None /\ bucket_type \in DOMAIN inventory_cache[1]
    THEN inventory_cache[1][bucket_type]
    ELSE EmptyDict

\* CloudInventoryService._scan_bucket: a listing failure is caught and gives {}
ScanBucket(bucket_type) ==
    IF bucket_type \in reachable THEN Bucket(bucket_type) ELSE EmptyDict

\* CloudInventoryService._refresh_inventory: new_cache, one scan per bucket
ScanBuckets == [raw |-> ScanBucket("raw"), ml |-> ScanBucket("ml")]

\* what writing the cache file can do: succeed, fail to open the file, or fail
\* while json.dump writes into the opened (truncated) file
SaveOutcomes == {"ok", "open_fails", "dump_fails"}

\* _save_cache: the metadata block written with the snapshot
Metadata(c) ==
    [last_updated |-> c.rescans, cache_version |-> CacheVersion, bucket_names |-> BucketNames]

\* _save_cache up to open(self.cache_file, 'w'): the metadata is set on the
\* snapshot in memory, and opening the file truncates it
BeginSave(c, outcome) ==
    IF c.inventory_cache = None THEN c
    ELSE LET data == c.inventory_cache[1]
             with_metadata == [k \in (DOMAIN data) \cup {"metadata"} |->
                                  IF k = "metadata" THEN Metadata(c) ELSE data[k]]
         IN [c EXCEPT !.inventory_cache = Some(with_metadata),
                      !.cache_file = IF outcome = "open_fails" THEN @ ELSE Unparseable]

\* (a save that leaves the stale flag as it is)
EndSaveKeepingStale(c, outcome) ==
    IF c.inventory_cache = None \/ outcome # "ok" THEN c
    ELSE [c EXCEPT !.cache_file = Document(c.inventory_cache[1]),
                   !.cache_timestamp = Some(c.rescans)]

\* _save_cache from json.dump on: the document is on disk, the time is taken
\* and the stale flag cleared, unless the write raised
EndSave(c, outcome) ==
    IF c.inventory_cache = None \/ outcome # "ok" THEN c
    ELSE [c EXCEPT !.cache_file = Document(c.inventory_cache[1]),
                   !.cache_timestamp = Some(c.rescans),
                   !.is_stale = FALSE]

\* CloudInventoryService._save_cache
SaveCache(c, outcome) == EndSave(BeginSave(c, outcome), outcome)

\* _refresh_inventory up to the assignment of self._inventory_cache
Rescan(c) == [c EXCEPT !.inventory_cache = Some(ScanBuckets), !.rescans = @ + 1]

\* CloudInventoryService._refresh_inventory
RefreshInventory(c, outcome) == SaveCache(Rescan(c), outcome)

\* (a query that lists the buckets on every call)
GetFullInventoryAlwaysRefreshing(c, force_refresh, outcome) == RefreshInventory(c, outcome)

\* CloudInventoryService.get_full_inventory: the fields after the call
GetFullInventory(c, force_refresh, outcome) ==
    IF force_refresh \/ ShouldRefresh(c) THEN RefreshInventory(c, outcome) ELSE c

\* (an invalidation that also drops the snapshot)
MarkStaleDroppingSnapshot(c) == [c EXCEPT !.is_stale = TRUE, !.inventory_cache = None]

\* CloudInventoryService.mark_stale
MarkStale(c) == [c EXCEPT !.is_stale = TRUE]

\* CloudInventoryService.get_full_inventory(force_refresh=False) as the
\* operations call it, on a disk that takes the cache file
CacheAfterQuery == GetFullInventory(CacheNow, FALSE, "ok")

\* the dict get_full_inventory returns for the cache fields c
Inventory(c) == IF c.inventory_cache = None THEN EmptyDict ELSE c.inventory_cache[1]

\* CloudInventoryService.get_raw_status on the inventory
CloudGetRawStatus(inventory) ==
    LET bags == Get(inventory, "raw", EmptyDict) IN
    CloudRawStatus(DOMAIN bags # {}, Cardinality(DOMAIN bags), Sorted(DOMAIN bags),
                   bags, SumOver(bags, DOMAIN bags))

\* CloudInventoryService.get_ml_status on the inventory
CloudGetMLStatus(inventory) ==
    LET files == Get(inventory, "ml", EmptyDict) IN
    CloudMLStatus(LabelCount(files) > 0, LabelCount(files), files)

----------------------------------------------------------------------------
(* LocalStateService *)

\* LocalStateService.get_raw_status
LocalGetRawStatus ==
    IF DOMAIN localRaw = {}
    THEN LocalRawStatus(FALSE, 0, <<>>, EmptyDict, 0)
    ELSE LocalRawStatus(TRUE, Cardinality(DOMAIN localRaw), Sorted(DOMAIN localRaw),
                        localRaw, SumOver(localRaw, DOMAIN localRaw))

\* LocalStateService.get_ml_status
LocalGetMLStatus ==
    LocalMLStatus(LabelCount(localML) > 0, LabelCount(localML), localML)

----------------------------------------------------------------------------
(* CloudOperationTemplate *)

\* CloudOperationTemplate._decide_file_action: <<should_transfer, is_conflict>>
decide_file_action(j, cloud_size, local_size) ==
    IF j.conflict_resolution = "overwrite" THEN <<TRUE, TRUE>>
    ELSE IF cloud_size = local_size THEN <<FALSE, TRUE>>
    ELSE <<TRUE, TRUE>>

\* the accumulator of the three lists a _create_operation_plan loop appends to
EmptyLists == [files_to_transfer |-> <<>>, files_to_skip |-> <<>>, conflicts |-> <<>>]

\* a plan whose totals also count the files that are skipped
PlanOfCountingSkipped(lists) ==
    TransferPlan(lists.files_to_transfer, lists.files_to_skip, lists.conflicts,
                 SumSizes(lists.files_to_transfer \o lists.files_to_skip),
                 Len(lists.files_to_transfer) + Len(lists.files_to_skip))

\* the TransferPlan built at the end of every _create_operation_plan
PlanOf(lists) ==
    TransferPlan(lists.files_to_transfer, lists.files_to_skip, lists.conflicts,
                 SumSizes(lists.files_to_transfer), Len(lists.files_to_transfer))

----------------------------------------------------------------------------
(* RawDownloadOperation *)

\* (a validation that accepts every source)
RawValidateAnySource(source_state) == TRUE

\* RawDownloadOperation._validate_source_state
RawValidateSourceState(source_state) ==
    source_state.exists /\ source_state.bag_count > 0

RECURSIVE RawSelectIndices(_, _)
\* RawDownloadOperation._apply_selection_filter: the bag_indices loop
\* (Python list index idx is element idx + 1 of the sequence)
RawSelectIndices(bag_names, indices) ==
    IF indices = <<>> THEN <<>>
    ELSE LET i == Head(indices) IN
         (IF 0 <= i /\ i < Len(bag_names) THEN <<bag_names[i + 1]>> ELSE <<>>)
         \o RawSelectIndices(bag_names, Tail(indices))

\* (a filter that takes criteria without a selection key as 'all')
RawSelectAllByDefault(source_state, criteria) ==
    IF Get(criteria, "all", FALSE) THEN source_state.bag_names
    ELSE IF "bag_indices" \in DOMAIN criteria
         THEN RawSelectIndices(source_state.bag_names, criteria.bag_indices)
         ELSE source_state.bag_names

\* RawDownloadOperation._apply_selection_filter
RawApplySelectionFilter(source_state, criteria) ==
    IF Get(criteria, "all", FALSE) THEN source_state.bag_names
    ELSE IF "bag_indices" \in DOMAIN criteria
         THEN RawSelectIndices(source_state.bag_names, criteria.bag_indices)
         ELSE <<>>

RECURSIVE RawLocalCloudNames(_, _)
\* RawDownloadOperation._create_operation_plan: the local -> cloud name map
RawLocalCloudNames(target_state, names) ==
    IF names = <<>> THEN EmptyDict
    ELSE LET n == Len(names)
             local_name == names[n]
             before == RawLocalCloudNames(target_state, SubSeq(names, 1, n - 1))
         IN Put(before, translate_bag_name_local_to_cloud(local_name),
                [local_name |-> local_name,
                 size |-> Get(target_state.bag_sizes, local_name, 0)])

\* RawDownloadOperation._create_operation_plan: one pass of the for loop
RawPlanStep(j, lists, cloud_bag_name, source_state, local_cloud_names) ==
    LET cloud_size == Get(source_state.bag_sizes, cloud_bag_name, 0)
        local_bag_name == translate_bag_name_cloud_to_local(cloud_bag_name)
    IN IF cloud_bag_name \in DOMAIN local_cloud_names
       THEN LET local_size == local_cloud_names[cloud_bag_name].size
                decision == decide_file_action(j, cloud_size, local_size)
                should_transfer == decision[1]
                is_conflict == decision[2]
                reason == IF cloud_size # local_size THEN "size_mismatch"
                          ELSE j.conflict_resolution
                conflicts == IF is_conflict
                             THEN Append(lists.conflicts,
                                         [name |-> cloud_bag_name, cloud_size |-> cloud_size,
                                          local_size |-> local_size, reason |-> reason])
                             ELSE lists.conflicts
            IN IF should_transfer
               THEN [lists EXCEPT !.conflicts = conflicts,
                         !.files_to_transfer = Append(@,
                             [cloud_name |-> cloud_bag_name, local_name |-> local_bag_name,
                              size |-> cloud_size, conflict |-> is_conflict])]
               ELSE [lists EXCEPT !.conflicts = conflicts,
                         !.files_to_skip = Append(@,
                             [cloud_name |-> cloud_bag_name, local_name |-> local_bag_name,
                              reason |-> "exists", size |-> cloud_size])]
       ELSE [lists EXCEPT !.files_to_transfer = Append(@,
                 [cloud_name |-> cloud_bag_name, local_name |-> local_bag_name,
                  size |-> cloud_size, conflict |-> FALSE])]

RECURSIVE RawPlanLoop(_, _, _, _, _)
\* RawDownloadOperation._create_operation_plan: the for loop over filtered_items
RawPlanLoop(j, lists, items, source_state, local_cloud_names) ==
    IF items = <<>> THEN lists
    ELSE RawPlanLoop(j, RawPlanStep(j, lists, Head(items), source_state, local_cloud_names),
                     Tail(items), source_state, local_cloud_names)

\* RawDownloadOperation._create_operation_plan
RawCreateOperationPlan(j, filtered_items, source_state, target_state) ==
    PlanOf(RawPlanLoop(j, EmptyLists, filtered_items, source_state,
                       RawLocalCloudNames(target_state, target_state.bag_names)))

----------------------------------------------------------------------------
(* MLDownloadOperation and MLUploadOperation: selection *)

RECURSIVE Concat(_)
\* the concatenation of a sequence of sequences: nested for loops appending
Concat(ss) == IF ss = <<>> THEN <<>> ELSE Head(ss) \o Concat(Tail(ss))

\* _apply_selection_filter: the inner loop over bag_data[file_type].items()
MLFilesOfType(bag_files, bag_name, file_type) ==
    LET names == FileKeys(bag_files, bag_name, file_type) IN
    [i \in 1..Len(names) |->
        [bag_name |-> bag_name, file_type |-> file_type, filename |-> names[i],
         size |-> bag_files[<<bag_name, file_type, names[i]>>]]]

\* _apply_selection_filter: the loop over selected_types for one bag
MLFilesOfBag(bag_files, bag_name, selected_types) ==
    Concat([t \in 1..Len(selected_types) |->
               MLFilesOfType(bag_files, bag_name, selected_types[t])])

\* _apply_selection_filter of the two ML operations (the same code twice)
MLApplySelectionFilter(source_state, criteria) ==
    LET bag_files == source_state.bag_files
        has_bags == Get(criteria, "all", FALSE) \/ "bag_names" \in DOMAIN criteria
        selected_bags ==
            IF Get(criteria, "all", FALSE) THEN BagKeys(bag_files)
            ELSE Filter(criteria.bag_names,
                        LAMBDA b : \E f \in DOMAIN bag_files : f[1] = b)
        selected_types ==
            IF "file_types" \in DOMAIN criteria
            THEN Filter(criteria.file_types, LAMBDA ft : ft \in Range(FileTypes))
            ELSE FileTypes
    IN IF ~has_bags THEN <<>>
       ELSE Concat([b \in 1..Len(selected_bags) |->
                       MLFilesOfBag(bag_files, selected_bags[b], selected_types)])

\* MLDownloadOperation._validate_source_state
MLDownloadValidateSourceState(source_state) ==
    source_state.exists /\ source_state.total_samples > 0

\* MLUploadOperation._validate_source_state
MLUploadValidateSourceState(source_state) ==
    source_state.downloaded /\ source_state.total_samples > 0

\* MLDownloadOperation._apply_selection_filter
MLDownloadApplySelectionFilter(source_state, criteria) ==
    MLApplySelectionFilter(source_state, criteria)

\* MLUploadOperation._apply_selection_filter
MLUploadApplySelectionFilter(source_state, criteria) ==
    MLApplySelectionFilter(source_state, criteria)

----------------------------------------------------------------------------
(* MLDownloadOperation: plan *)

\* MLDownloadOperation._create_operation_plan: one pass of the for loop
MLDownloadPlanStep(j, lists, file_item, target_state) ==
    LET cloud_bag_name == file_item.bag_name
        file_type == file_item.file_type
        filename == file_item.filename
        cloud_size == file_item.size
        local_bag_name == translate_bag_name_cloud_to_local(cloud_bag_name)
        local_id == <<local_bag_name, file_type, filename>>
        local_exists == local_id \in DOMAIN target_state.bag_files
        local_size == IF local_exists THEN target_state.bag_files[local_id] ELSE 0
        spec(conflict) ==
            [cloud_bag_name |-> cloud_bag_name, local_bag_name |-> local_bag_name,
             file_type |-> file_type, filename |-> filename, size |-> cloud_size,
             conflict |-> conflict]
    IN IF ~local_exists
       THEN [lists EXCEPT !.files_to_transfer = Append(@, spec(FALSE))]
       ELSE LET decision == decide_file_action(j, cloud_size, local_size)
                should_transfer == decision[1]
                is_conflict == decision[2]
                conflicts == IF cloud_size # local_size
                             THEN Append(lists.conflicts,
                                         [filename |-> filename, file_type |-> file_type,
                                          cloud_size |-> cloud_size, local_size |-> local_size,
                                          reason |-> "size_mismatch"])
                             ELSE lists.conflicts
            IN IF should_transfer
               THEN [lists EXCEPT !.conflicts = conflicts,
                         !.files_to_transfer = Append(@, spec(is_conflict))]
               ELSE [lists EXCEPT !.conflicts = conflicts,
                         !.files_to_skip = Append(@,
                             [cloud_bag_name |-> cloud_bag_name,
                              local_bag_name |-> local_bag_name,
                              file_type |-> file_type, filename |-> filename,
                              reason |-> IF cloud_size = local_size THEN "already_exists"
                                         ELSE "conflict_skip",
                              size |-> cloud_size])]

RECURSIVE MLDownloadPlanLoop(_, _, _, _)
\* MLDownloadOperation._create_operation_plan: the for loop over filtered_items
MLDownloadPlanLoop(j, lists, items, target_state) ==
    IF items = <<>> THEN lists
    ELSE MLDownloadPlanLoop(j, MLDownloadPlanStep(j, lists, Head(items), target_state),
                            Tail(items), target_state)

\* MLDownloadOperation._create_operation_plan
MLDownloadCreateOperationPlan(j, filtered_items, source_state, target_state) ==
    PlanOf(MLDownloadPlanLoop(j, EmptyLists, filtered_items, target_state))

----------------------------------------------------------------------------
(* MLUploadOperation: plan *)

\* MLUploadOperation._create_operation_plan: one pass of the for loop
MLUploadPlanStep(j, lists, file_item, target_state) ==
    LET local_bag_name == file_item.bag_name
        file_type == file_item.file_type
        filename == file_item.filename
        local_size == file_item.size
        cloud_bag_name == translate_bag_name_local_to_cloud(local_bag_name)
        cloud_id == <<cloud_bag_name, file_type, filename>>
        cloud_exists == cloud_id \in DOMAIN target_state.bag_files
        cloud_size == IF cloud_exists THEN target_state.bag_files[cloud_id] ELSE 0
        spec(conflict) ==
            [local_bag_name |-> local_bag_name, cloud_bag_name |-> cloud_bag_name,
             file_type |-> file_type, filename |-> filename, size |-> local_size,
             conflict |-> conflict]
    IN IF ~cloud_exists
       THEN [lists EXCEPT !.files_to_transfer = Append(@, spec(FALSE))]
       ELSE LET decision == decide_file_action(j, cloud_size, local_size)
                should_transfer == decision[1]
                is_conflict == decision[2]
                reason == IF cloud_size # local_size THEN "size_mismatch"
                          ELSE j.conflict_resolution
                conflicts == IF is_conflict
                             THEN Append(lists.conflicts,
                                         [filename |-> filename, file_type |-> file_type,
                                          cloud_size |-> cloud_size, local_size |-> local_size,
                                          reason |-> reason])
                             ELSE lists.conflicts
            IN IF should_transfer
               THEN [lists EXCEPT !.conflicts = conflicts,
                         !.files_to_transfer = Append(@, spec(is_conflict))]
               ELSE [lists EXCEPT !.conflicts = conflicts,
                         !.files_to_skip = Append(@,
                             [local_bag_name |-> local_bag_name,
                              cloud_bag_name |-> cloud_bag_name,
                              file_type |-> file_type, filename |-> filename,
                              reason |-> "exists", size |-> local_size])]

RECURSIVE MLUploadPlanLoop(_, _, _, _)
\* MLUploadOperation._create_operation_plan: the for loop over filtered_items
MLUploadPlanLoop(j, lists, items, target_state) ==
    IF items = <<>> THEN lists
    ELSE MLUploadPlanLoop(j, MLUploadPlanStep(j, lists, Head(items), target_state),
                          Tail(items), target_state)

\* MLUploadOperation._create_operation_plan
MLUploadCreateOperationPlan(j, filtered_items, source_state, target_state) ==
    PlanOf(MLUploadPlanLoop(j, EmptyLists, filtered_items, target_state))

----------------------------------------------------------------------------
(* CloudOperationTemplate.execute_operation: steps 1 to 4 *)

\* RawDownloadOperation: source and target discovery, selection and plan
RawDownloadPrepare(j) ==
    LET c == CacheAfterQuery
        source_state == CloudGetRawStatus(Inventory(c))
        target_state == LocalGetRawStatus
        filtered_items == RawApplySelectionFilter(source_state, j.selection_criteria)
    IN [cache |-> c, valid |-> RawValidateSourceState(source_state),
        plan |-> RawCreateOperationPlan(j, filtered_items, source_state, target_state)]

\* MLDownloadOperation: source and target discovery, selection and plan
MLDownloadPrepare(j) ==
    LET c == CacheAfterQuery
        source_state == CloudGetMLStatus(Inventory(c))
        target_state == LocalGetMLStatus
        filtered_items == MLDownloadApplySelectionFilter(source_state, j.selection_criteria)
    IN [cache |-> c, valid |-> MLDownloadValidateSourceState(source_state),
        plan |-> MLDownloadCreateOperationPlan(j, filtered_items, source_state, target_state)]

\* MLUploadOperation: source and target discovery, selection and plan
\* (the cloud is queried only after the local source was found valid)
MLUploadPrepare(j) ==
    LET source_state == LocalGetMLStatus
        valid == MLUploadValidateSourceState(source_state)
        c == IF valid THEN CacheAfterQuery ELSE CacheNow
        target_state == CloudGetMLStatus(Inventory(c))
        filtered_items == MLUploadApplySelectionFilter(source_state, j.selection_criteria)
    IN [cache |-> c, valid |-> valid,
        plan |-> MLUploadCreateOperationPlan(j, filtered_items, source_state, target_state)]

\* (a service that executes the plan of the preview when it has shown one)
PrepareReusingPreview(j) ==
    LET p == CASE j.operation_type = "raw_download" -> RawDownloadPrepare(j)
               [] j.operation_type = "ml_download" -> MLDownloadPrepare(j)
               [] j.operation_type = "ml_upload" -> MLUploadPrepare(j)
    IN IF "dry_run" \in DOMAIN lastResult.result
       THEN [p EXCEPT !.plan = lastResult.result.plan]
       ELSE p

\* CloudOperationService.OPERATIONS: the operation class of the job
Prepare(j) ==
    CASE j.operation_type = "raw_download" -> RawDownloadPrepare(j)
      [] j.operation_type = "ml_download" -> MLDownloadPrepare(j)
      [] j.operation_type = "ml_upload" -> MLUploadPrepare(j)

NoPlan == PlanOf(EmptyLists)

\* a template that ignores the dry_run flag of the job
DryRunIgnored(j) == FALSE

\* CloudOperationTemplate.execute_operation, step 5: `if job.dry_run`
DryRunRequested(j) == j.dry_run

\* the loop variables outside _execute_transfer
LoopIdle ==
    /\ plan' = NoPlan
    /\ idx' = 0
    /\ results' = <<>>
    /\ failed' = 0
    /\ total_bytes' = 0

\* CloudOperationTemplate.execute_operation up to the first file of the transfer
ExecuteOperation(dry_run) ==
    /\ pc = "idle"
    /\ runs < MaxRuns
    /\ runs' = runs + 1
    /\ job' = [job EXCEPT !.dry_run = dry_run]
    /\ UNCHANGED viewVars
    /\ UNCHANGED <<storeVars, serviceVars>>
    /\ LET p == Prepare(job') IN
       /\ inventory_cache' = p.cache.inventory_cache
       /\ cache_timestamp' = p.cache.cache_timestamp
       /\ is_stale' = p.cache.is_stale
       /\ cache_file' = p.cache.cache_file
       /\ rescans' = p.cache.rescans
       /\ IF ~p.valid
          THEN /\ lastResult' = OperationResult(FALSE, EmptyDict,
                                                Some("No source data found"), None, FALSE)
               /\ pc' = "idle"
               /\ LoopIdle
          ELSE IF DryRunRequested(job')
          THEN /\ lastResult' = OperationResult(TRUE, [plan |-> p.plan, dry_run |-> TRUE],
                                                None, None, FALSE)
               /\ pc' = "idle"
               /\ LoopIdle
          ELSE IF p.plan.files_to_transfer = <<>>
          THEN /\ lastResult' = OperationResult(TRUE,
                                    [plan |-> p.plan, message |-> "No files to transfer"],
                                    None, None, FALSE)
               /\ pc' = "idle"
               /\ LoopIdle
          ELSE /\ pc' = "transferring"
               /\ plan' = p.plan
               /\ idx' = 1
               /\ results' = <<>>
               /\ failed' = 0
               /\ total_bytes' = 0
               /\ UNCHANGED lastResult

\* OperationsOrchestrationService.execute_dry_run
ExecuteDryRun == ExecuteOperation(TRUE)

\* OperationsOrchestrationService.execute_transfer
ExecuteTransfer == ExecuteOperation(FALSE)

----------------------------------------------------------------------------
(* _execute_transfer: one pass of the for loop per step *)

\* what a blob transfer can do: move the bytes faithfully, store an object of
\* another size (here: an empty one), or raise without leaving anything
Outcomes == {"ok", "corrupt", "error"}

\* the local raw coordinate directory
RawDir == <<"raw">>

\* the local directory of one file type of one ML bag
MLDir(bag_name, file_type) == <<"ml", bag_name, file_type>>

\* (a cleanup that leaves the directory as the plan found it)
UnlinkNothing(files, local_path) == files

\* the except branch of the downloads: `if local_path.exists(): local_path.unlink()`
Unlink(files, local_path) == Remove(files, local_path)

\* the except branch: count the failure and record it
RecordFailure(entry) ==
    /\ failed' = failed + 1
    /\ results' = Append(results, entry)
    /\ UNCHANGED total_bytes

\* a success whose bytes are not added to total_bytes
RecordSuccessWithoutBytes(entry, size) ==
    /\ total_bytes' = total_bytes
    /\ results' = Append(results, entry)
    /\ UNCHANGED failed

\* the end of the try branch: count the bytes and record the success
RecordSuccess(entry, size) ==
    /\ total_bytes' = total_bytes + size
    /\ results' = Append(results, entry)
    /\ UNCHANGED failed

\* the outcomes a blob transfer on the bucket of a type can have now: a bucket
\* that cannot be reached raises, one that can be reached misbehaves at most
\* MaxFaults times in a run
BlobTransfer(outcome, bucket_type) ==
    IF bucket_type \in reachable
    THEN outcome # "ok" => failed < MaxFaults
    ELSE outcome = "error"

\* RawDownloadOperation._execute_transfer: the body of the for loop
RawDownloadFile(outcome) ==
    /\ pc = "transferring"
    /\ BlobTransfer(outcome, "raw")
    /\ job.operation_type = "raw_download"
    /\ idx <= Len(plan.files_to_transfer)
    /\ LET file_spec == plan.files_to_transfer[idx]
           local_path == file_spec.local_name
           downloaded == outcome # "error" /\ file_spec.cloud_name \in DOMAIN cloudRaw
           actual_size == IF outcome = "ok" THEN cloudRaw[file_spec.cloud_name] ELSE 0
       IN /\ localDirs' = localDirs \cup {RawDir}
          /\ IF downloaded /\ actual_size = file_spec.size
             THEN /\ localRaw' = Put(localRaw, local_path, actual_size)
                  /\ RecordSuccess([file |-> file_spec.cloud_name, success |-> TRUE,
                                    size |-> file_spec.size], file_spec.size)
             ELSE /\ localRaw' = Unlink(localRaw, local_path)
                  /\ RecordFailure([file |-> file_spec.cloud_name, success |-> FALSE,
                                    error |-> IF downloaded THEN "Size mismatch"
                                              ELSE "download failed"])
    /\ idx' = idx + 1
    /\ UNCHANGED viewVars
    /\ UNCHANGED <<job, cloudRaw, cloudML, localML, cacheVars, pc, plan, lastResult, runs,
                   fileVars, serviceVars>>

\* MLDownloadOperation._execute_transfer: the body of the for loop
MLDownloadFile(outcome) ==
    /\ pc = "transferring"
    /\ BlobTransfer(outcome, "ml")
    /\ job.operation_type = "ml_download"
    /\ idx <= Len(plan.files_to_transfer)
    /\ LET file_spec == plan.files_to_transfer[idx]
           cloud_path == <<file_spec.cloud_bag_name, file_spec.file_type, file_spec.filename>>
           local_path == <<file_spec.local_bag_name, file_spec.file_type, file_spec.filename>>
           downloaded == outcome # "error" /\ cloud_path \in DOMAIN cloudML
           actual_size == IF outcome = "ok" THEN cloudML[cloud_path] ELSE 0
       IN /\ localDirs' = localDirs \cup {MLDir(file_spec.local_bag_name, file_spec.file_type)}
          /\ IF downloaded /\ actual_size = file_spec.size
             THEN /\ localML' = Put(localML, local_path, actual_size)
                  /\ RecordSuccess([file |-> file_spec.filename,
                                    file_type |-> file_spec.file_type, success |-> TRUE,
                                    size |-> file_spec.size], file_spec.size)
             ELSE /\ localML' = Unlink(localML, local_path)
                  /\ RecordFailure([file |-> file_spec.filename,
                                    file_type |-> file_spec.file_type, success |-> FALSE,
                                    error |-> IF downloaded THEN "Size mismatch after download"
                                              ELSE "download failed"])
    /\ idx' = idx + 1
    /\ UNCHANGED viewVars
    /\ UNCHANGED <<job, cloudRaw, cloudML, localRaw, cacheVars, pc, plan, lastResult, runs,
                   fileVars, serviceVars>>

\* MLUploadOperation._execute_transfer: the body of the for loop
MLUploadFile(outcome) ==
    /\ pc = "transferring"
    /\ BlobTransfer(outcome, "ml")
    /\ job.operation_type = "ml_upload"
    /\ idx <= Len(plan.files_to_transfer)
    /\ LET file_spec == plan.files_to_transfer[idx]
           local_path == <<file_spec.local_bag_name, file_spec.file_type, file_spec.filename>>
           cloud_path == <<file_spec.cloud_bag_name, file_spec.file_type, file_spec.filename>>
           uploaded == outcome # "error" /\ local_path \in DOMAIN localML
           blob_size == IF outcome = "ok" THEN localML[local_path] ELSE 0
       IN /\ cloudML' = IF uploaded THEN Put(cloudML, cloud_path, blob_size) ELSE cloudML
          /\ IF uploaded /\ blob_size = file_spec.size
             THEN RecordSuccess([file |-> file_spec.filename,
                                 file_type |-> file_spec.file_type, success |-> TRUE,
                                 size |-> file_spec.size], file_spec.size)
             ELSE RecordFailure([file |-> file_spec.filename,
                                 file_type |-> file_spec.file_type, success |-> FALSE,
                                 error |-> IF uploaded THEN "Size mismatch after upload"
                                           ELSE "upload failed"])
    /\ idx' = idx + 1
    /\ UNCHANGED viewVars
    /\ UNCHANGED <<job, cloudRaw, localRaw, localML, localDirs, cacheVars, pc, plan,
                   lastResult, runs, fileVars, serviceVars>>

\* _execute_transfer after the for loop: the OperationResult (the same code thrice)
FinishTransfer ==
    /\ pc = "transferring"
    /\ idx > Len(plan.files_to_transfer)
    /\ lastResult' = OperationResult(
            failed = 0,
            [plan |-> plan, results |-> results,
             summary |-> [total_files |-> Len(plan.files_to_transfer),
                          successful |-> Len(plan.files_to_transfer) - failed,
                          failed |-> failed,
                          total_bytes |-> total_bytes]],
            None,
            IF failed > 0 THEN Some(failed) ELSE None,
            FALSE)
    /\ pc' = "idle"
    /\ LoopIdle
    /\ UNCHANGED viewVars
    /\ UNCHANGED <<job, storeVars, cacheVars, runs, fileVars, serviceVars>>

----------------------------------------------------------------------------
(* Jobs and start-up states *)

\* selection criteria of raw download jobs
RawCriteria ==
    {[all |-> TRUE], EmptyDict,
     [bag_indices |-> <<1, 0>>], [bag_indices |-> <<0, 7, -1, 0>>],
     [bag_indices |-> <<7, -1>>]}

\* selection criteria of ML jobs; bag_names are names of the source store
MLCriteria(operation_type) ==
    LET A == IF operation_type = "ml_download" THEN CloudA ELSE LocalA
    IN {[all |-> TRUE], [file_types |-> <<"labels">>],
        [all |-> TRUE, file_types |-> <<"frames", "frames", "masks">>],
        [bag_names |-> <<A>>], [bag_names |-> <<A, A, CloudB>>],
        [bag_names |-> <<CloudB>>], [all |-> TRUE, file_types |-> <<>>]}

\* OperationsOrchestrationService.create_transfer_job
create_transfer_job(operation_type, selection_criteria, conflict_resolution) ==
    [operation_type |-> operation_type, selection_criteria |-> selection_criteria,
     conflict_resolution |-> conflict_resolution, dry_run |-> TRUE]

ConflictResolutions == {"skip", "overwrite"}

Jobs ==
    {create_transfer_job("raw_download", c, r) : c \in RawCriteria, r \in ConflictResolutions}
    \cup UNION {{create_transfer_job(t, c, r) : c \in MLCriteria(t), r \in ConflictResolutions} :
                   t \in {"ml_download", "ml_upload"}}

\* every store over a subset of the identities ids, sizes 1..MaxSize
Stores(ids) == UNION {[d -> 1..MaxSize] : d \in SUBSET ids}

\* bag objects the raw bucket can hold at start-up: two bags named by the cloud
\* convention and one bag whose name carries the local prefix
CloudRawIds == {CloudA, CloudB, LocalA}

\* *.bag files the local raw directory can hold at start-up
LocalRawIds == {LocalA, CloudA}

\* objects the ML bucket can hold at start-up: frames and labels of one bag
CloudMLIds == {<<CloudA, "frames", "f">>, <<CloudA, "labels", "f">>}

\* files the local ML directory can hold at start-up: frames and labels of one bag
LocalMLIds == {<<LocalA, "frames", "f">>, <<LocalA, "labels", "f">>}

\* the directories that hold the local files
DirsOf(raw, ml) ==
    (IF DOMAIN raw = {} THEN {} ELSE {RawDir}) \cup {MLDir(f[1], f[2]) : f \in DOMAIN ml}

NoResult == OperationResult(FALSE, EmptyDict, None, None, FALSE)

\* a job of the dashboard and the two stores of its kind under the coordinate
JobAndStores ==
    /\ job \in Jobs
    /\ \/ /\ job.operation_type = "raw_download"
          /\ cloudRaw \in Stores(CloudRawIds)
          /\ localRaw \in Stores(LocalRawIds)
          /\ cloudML = EmptyDict
          /\ localML = EmptyDict
       \/ /\ job.operation_type = "ml_download"
          /\ cloudRaw = EmptyDict
          /\ localRaw = EmptyDict
          /\ cloudML \in Stores(CloudMLIds)
          /\ localML \in Stores(LocalMLIds)
       \/ /\ job.operation_type = "ml_upload"
          /\ cloudRaw = EmptyDict
          /\ localRaw = EmptyDict
          /\ localML \in Stores(LocalMLIds)
          /\ cloudML \in Stores(CloudMLIds)
    /\ localDirs = DirsOf(localRaw, localML)

\* no execute_operation call was made yet
NoRunYet ==
    /\ pc = "idle"
    /\ plan = NoPlan
    /\ idx = 0
    /\ results = <<>>
    /\ failed = 0
    /\ total_bytes = 0
    /\ lastResult = NoResult
    /\ runs = 0

\* no InventoryItem was made yet
NoItem == [kind |-> "none"]

\* InventoryViewService.__init__, and no bag name was translated yet
NoViewYet ==
    /\ name_trace = <<>>
    /\ item = NoItem
    /\ inventory_items = None
    /\ view_calls = <<>>

\* what a second process has read before it read anything
NothingRead == [kind |-> "nothing"]

\* CloudInventoryService.__init__ on a cache file of the given content
Constructed(file) ==
    /\ cache_file = file
    /\ inventory_cache = LoadCache(file).inventory_cache
    /\ cache_timestamp = LoadCache(file).cache_timestamp
    /\ is_stale = FALSE
    /\ rescans = 0
    /\ calls = <<>>
    /\ save_pc = "idle"
    /\ reader_read = NothingRead

\* the dashboard starts without a cache file, and both buckets can be reached
Init ==
    /\ JobAndStores
    /\ NoRunYet
    /\ NoViewYet
    /\ Constructed(NoFile)
    /\ reachable = BucketTypes

Next ==
    \/ ExecuteDryRun
    \/ ExecuteTransfer
    \/ \E outcome \in Outcomes : RawDownloadFile(outcome)
    \/ \E outcome \in Outcomes : MLDownloadFile(outcome)
    \/ \E outcome \in Outcomes : MLUploadFile(outcome)
    \/ FinishTransfer

Spec == Init /\ [][Next]_vars

\* the document an earlier process saved of the buckets as they are
SavedSnapshot ==
    [raw |-> cloudRaw, ml |-> cloudML,
     metadata |-> [last_updated |-> 0, cache_version |-> CacheVersion,
                   bucket_names |-> BucketNames]]

\* the dashboard starts while no bucket can be reached, without a cache file or
\* with the one an earlier process saved
OutageInit ==
    /\ JobAndStores
    /\ NoRunYet
    /\ NoViewYet
    /\ Constructed(NoFile) \/ Constructed(Document(SavedSnapshot))
    /\ reachable = {}

OutageSpec == OutageInit /\ [][Next]_vars

----------------------------------------------------------------------------
(* The CloudInventoryService called on its own: queries, invalidation, restart *)

\* the service fields become those of the record c
CacheBecomes(c) ==
    /\ inventory_cache' = c.inventory_cache
    /\ cache_timestamp' = c.cache_timestamp
    /\ is_stale' = c.is_stale
    /\ cache_file' = c.cache_file
    /\ rescans' = c.rescans

\* one entry of the call history
Call(op, force_refresh, disk) == [op |-> op, force_refresh |-> force_refresh, disk |-> disk]

\* get_full_inventory(force_refresh), the cache file write ending as disk says
QueryInventory(force_refresh, disk) ==
    /\ Len(calls) < MaxCalls
    /\ save_pc = "idle"
    /\ CacheBecomes(GetFullInventory(CacheNow, force_refresh, disk))
    /\ calls' = Append(calls, Call("get_full_inventory", force_refresh, disk))
    /\ UNCHANGED viewVars
    /\ UNCHANGED <<jobVars, storeVars, reachable, save_pc, reader_read>>

\* mark_stale(reason)
CallMarkStale ==
    /\ Len(calls) < MaxCalls
    /\ save_pc = "idle"
    /\ CacheBecomes(MarkStale(CacheNow))
    /\ calls' = Append(calls, Call("mark_stale", FALSE, "ok"))
    /\ UNCHANGED viewVars
    /\ UNCHANGED <<jobVars, storeVars, reachable, save_pc, reader_read>>

\* the process ends and a new CloudInventoryService is constructed on the file
Restart ==
    /\ Len(calls) < MaxCalls
    /\ save_pc = "idle"
    /\ inventory_cache' = LoadCache(cache_file).inventory_cache
    /\ cache_timestamp' = LoadCache(cache_file).cache_timestamp
    /\ is_stale' = FALSE
    /\ calls' = Append(calls, Call("construct", FALSE, "ok"))
    /\ UNCHANGED viewVars
    /\ UNCHANGED <<jobVars, storeVars, fileVars, reachable, save_pc, reader_read>>

\* a configuration other than the current one
OtherVersion == "0.9"
OtherBucketNames == [raw |-> "old-raw-bucket", ml |-> "ml-bucket"]

\* a document saved earlier, when the raw bucket held another bag
OldSnapshot(cache_version, bucket_names) ==
    [raw |-> (CloudB :> 1), ml |-> EmptyDict,
     metadata |-> [last_updated |-> 0, cache_version |-> cache_version,
                   bucket_names |-> bucket_names]]

\* what the cache file can hold when the service is constructed
CacheFiles ==
    {NoFile, Unparseable, Document(EmptyDict)}
    \cup {Document(OldSnapshot(v, n)) : v \in {CacheVersion, OtherVersion},
                                        n \in {BucketNames, OtherBucketNames}}

\* the two buckets under the coordinate, each empty or holding one object
SmallStores ==
    /\ job = create_transfer_job("raw_download", [all |-> TRUE], "skip")
    /\ cloudRaw \in {EmptyDict, (CloudA :> 1)}
    /\ cloudML \in {EmptyDict, (<<CloudA, "labels", "f">> :> 1)}
    /\ localRaw = EmptyDict
    /\ localML = EmptyDict
    /\ localDirs = {}

CacheInit ==
    /\ SmallStores
    /\ NoRunYet
    /\ NoViewYet
    /\ \E file \in CacheFiles : Constructed(file)
    /\ reachable \in SUBSET BucketTypes

CacheNext ==
    \/ \E force_refresh \in BOOLEAN, disk \in SaveOutcomes :
           QueryInventory(force_refresh, disk)
    \/ CallMarkStale
    \/ Restart

CacheSpec == CacheInit /\ [][CacheNext]_vars

----------------------------------------------------------------------------
(* One process refreshing and saving, a second process loading the cache file *)

\* get_full_inventory(force_refresh=True) of the writer, up to and including
\* open(cache_file, 'w') of _save_cache: the buckets are listed, the snapshot
\* is replaced and the file is truncated
BeginRefresh ==
    /\ Len(calls) < MaxCalls
    /\ save_pc = "idle"
    /\ CacheBecomes(BeginSave(Rescan(CacheNow), "ok"))
    /\ save_pc' = "writing"
    /\ calls' = Append(calls, Call("get_full_inventory", TRUE, "ok"))
    /\ UNCHANGED viewVars
    /\ UNCHANGED <<jobVars, storeVars, reachable, reader_read>>

\* the rest of _save_cache: json.dump completes and the file is closed
FinishSave ==
    /\ save_pc = "writing"
    /\ CacheBecomes(EndSave(CacheNow, "ok"))
    /\ save_pc' = "idle"
    /\ UNCHANGED viewVars
    /\ UNCHANGED <<jobVars, storeVars, reachable, calls, reader_read>>

\* what _load_cache of a process gets from the file content it finds
Loaded(file) == [kind |-> "loaded", file |-> file, cache |-> LoadCache(file)]

\* _load_cache of a second process, at any moment
ReaderLoad ==
    /\ reader_read' = Loaded(cache_file)
    /\ reader_read' # reader_read
    /\ UNCHANGED viewVars
    /\ UNCHANGED <<jobVars, storeVars, cacheVars, fileVars, reachable, calls, save_pc>>

\* the cache file is absent or a complete document when the writer starts
RaceInit ==
    /\ SmallStores
    /\ NoRunYet
    /\ NoViewYet
    /\ \E file \in CacheFiles \ {Unparseable} : Constructed(file)
    /\ reachable \in SUBSET BucketTypes

RaceNext ==
    \/ BeginRefresh
    \/ FinishSave
    \/ ReaderLoad

RaceSpec == RaceInit /\ [][RaceNext]_vars

----------------------------------------------------------------------------
(* Preview and execution, with the local directories changing in between *)

\* jobs that select everything
PreviewJobs ==
    {create_transfer_job(t, [all |-> TRUE], r) :
        t \in {"raw_download", "ml_download", "ml_upload"}, r \in ConflictResolutions}

\* one bag on each side, under the name the other side translates to
PreviewInit ==
    /\ job \in PreviewJobs
    /\ \/ /\ job.operation_type = "raw_download"
          /\ cloudRaw \in Stores({CloudA})
          /\ localRaw \in Stores({LocalA})
          /\ cloudML = EmptyDict
          /\ localML = EmptyDict
       \/ /\ job.operation_type \in {"ml_download", "ml_upload"}
          /\ cloudRaw = EmptyDict
          /\ localRaw = EmptyDict
          /\ cloudML \in Stores({<<CloudA, "labels", "f">>})
          /\ localML \in Stores({<<LocalA, "labels", "f">>})
    /\ localDirs = DirsOf(localRaw, localML)
    /\ NoRunYet
    /\ NoViewYet
    /\ Constructed(NoFile)
    /\ reachable = BucketTypes

\* between two calls somebody writes or deletes the local file of the bag
LocalFileChanges ==
    /\ pc = "idle"
    /\ runs > 0
    /\ \/ /\ job.operation_type = "raw_download"
          /\ \/ \E size \in 1..MaxSize : localRaw' = Put(localRaw, LocalA, size)
             \/ localRaw' = Remove(localRaw, LocalA)
          /\ UNCHANGED localML
       \/ /\ job.operation_type \in {"ml_download", "ml_upload"}
          /\ \/ \E size \in 1..MaxSize :
                   localML' = Put(localML, <<LocalA, "labels", "f">>, size)
             \/ localML' = Remove(localML, <<LocalA, "labels", "f">>)
          /\ UNCHANGED localRaw
    /\ <<localRaw', localML'>> # <<localRaw, localML>>
    /\ localDirs' = localDirs \cup DirsOf(localRaw', localML')
    /\ UNCHANGED viewVars
    /\ UNCHANGED <<jobVars, cloudRaw, cloudML, cacheVars, fileVars, serviceVars>>

PreviewNext ==
    \/ Next
    \/ LocalFileChanges

PreviewSpec == PreviewInit /\ [][PreviewNext]_vars

----------------------------------------------------------------------------
(* The bag name translations, applied in a row to one name *)

\* the pieces a bag name is made of: the literal "rosbag", an underscore, the rest
NameTokens == {"rosbag", "_", "a"}

BagNames == UNION {[1..n -> NameTokens] : n \in 0..MaxNameLen}

\* no job runs and nothing is stored
NothingStored ==
    /\ job = create_transfer_job("raw_download", [all |-> TRUE], "skip")
    /\ cloudRaw = EmptyDict
    /\ cloudML = EmptyDict
    /\ localRaw = EmptyDict
    /\ localML = EmptyDict
    /\ localDirs = {}
    /\ NoRunYet
    /\ Constructed(NoFile)
    /\ reachable = BucketTypes

NameInit ==
    /\ NothingStored
    /\ \E n \in BagNames : name_trace = <<[by |-> "input", name |-> n]>>
    /\ item = NoItem
    /\ inventory_items = None
    /\ view_calls = <<>>

\* the name the last translation returned
LastName == name_trace[Len(name_trace)].name

\* a call of CoordinatePathBuilder.translate_bag_name_cloud_to_local
TranslateCloudToLocal ==
    /\ Len(name_trace) <= MaxHops
    /\ name_trace' = Append(name_trace,
                            [by |-> "cloud_to_local",
                             name |-> translate_bag_name_cloud_to_local(LastName)])
    /\ UNCHANGED <<jobVars, storeVars, cacheVars, fileVars, serviceVars,
                   item, inventory_items, view_calls>>

\* a call of CoordinatePathBuilder.translate_bag_name_local_to_cloud
TranslateLocalToCloud ==
    /\ Len(name_trace) <= MaxHops
    /\ name_trace' = Append(name_trace,
                            [by |-> "local_to_cloud",
                             name |-> translate_bag_name_local_to_cloud(LastName)])
    /\ UNCHANGED <<jobVars, storeVars, cacheVars, fileVars, serviceVars,
                   item, inventory_items, view_calls>>

NameNext ==
    \/ TranslateCloudToLocal
    \/ TranslateLocalToCloud

NameSpec == NameInit /\ [][NameNext]_vars

----------------------------------------------------------------------------
(* InventoryViewService: the tags of one InventoryItem *)

\* models/pages.py: InventoryItem of the four statuses, not tagged yet
InventoryItem(cloud_raw_status, local_raw_status, cloud_ml_status, local_ml_status) ==
    [kind |-> "item",
     cloud_raw_status |-> cloud_raw_status, local_raw_status |-> local_raw_status,
     cloud_ml_status |-> cloud_ml_status, local_ml_status |-> local_ml_status,
     raw_sync_status |-> "unknown", ml_sync_status |-> "unknown",
     raw_issues |-> <<>>, ml_issues |-> <<>>]

\* bag_samples[bag] of an ML status: the files of the bag, counted by type
BagSamples(bag_files, bag) ==
    [frame_count |-> Len(FileKeys(bag_files, bag, "frames")),
     label_count |-> Len(FileKeys(bag_files, bag, "labels"))]

\* bag_files[bag][file_type] of an ML status: file name to size
TypeFiles(bag_files, bag, file_type) ==
    [n \in Range(FileKeys(bag_files, bag, file_type)) |-> bag_files[<<bag, file_type, n>>]]

\* InventoryViewService._raw_data_matches
raw_data_matches(it) ==
    IF it.cloud_raw_status = None \/ it.local_raw_status = None THEN FALSE
    ELSE LET cloud == it.cloud_raw_status[1]
             local == it.local_raw_status[1]
             cloud_bags_translated ==
                 {translate_bag_name_cloud_to_local(b) : b \in Range(cloud.bag_names)}
         IN  /\ cloud.bag_count = local.bag_count
             /\ cloud.total_size = local.total_size
             /\ cloud_bags_translated = Range(local.bag_names)
             /\ \A cloud_bag \in DOMAIN cloud.bag_sizes :
                    LET local_bag == translate_bag_name_cloud_to_local(cloud_bag) IN
                    /\ local_bag \in DOMAIN local.bag_sizes
                    /\ local.bag_sizes[local_bag] = cloud.bag_sizes[cloud_bag]

\* InventoryViewService._ml_data_matches
ml_data_matches(it) ==
    IF it.cloud_ml_status = None \/ it.local_ml_status = None THEN FALSE
    ELSE LET cloud == it.cloud_ml_status[1]
             local == it.local_ml_status[1]
             cloud_bags == BagKeys(cloud.bag_files)
             \* cloud_bags_translated: the last cloud bag written under a key stays
             translated_keys == {translate_bag_name_cloud_to_local(b) : b \in Range(cloud_bags)}
             cloud_bag_of(local_bag) ==
                 LET under == Filter(cloud_bags,
                                     LAMBDA b : translate_bag_name_cloud_to_local(b) = local_bag)
                 IN  under[Len(under)]
         IN  /\ cloud.total_samples = local.total_samples
             /\ translated_keys = Range(BagKeys(local.bag_files))
             /\ \A local_bag \in translated_keys :
                    BagSamples(cloud.bag_files, cloud_bag_of(local_bag))
                        = BagSamples(local.bag_files, local_bag)
             /\ \A local_bag \in translated_keys : \A file_type \in Range(FileTypes) :
                    LET cloud_type_files ==
                            TypeFiles(cloud.bag_files, cloud_bag_of(local_bag), file_type)
                        local_type_files == TypeFiles(local.bag_files, local_bag, file_type)
                    IN  /\ DOMAIN cloud_type_files = DOMAIN local_type_files
                        /\ \A filename \in DOMAIN cloud_type_files :
                               cloud_type_files[filename] = local_type_files[filename]

\* the status both _determine_*_sync_status methods return
SyncStatus(cloud_exists, local_exists, matches) ==
    IF ~cloud_exists /\ ~local_exists THEN "missing"
    ELSE IF cloud_exists /\ ~local_exists THEN "cloud_only"
    ELSE IF local_exists /\ ~cloud_exists THEN "local_only"
    ELSE IF matches THEN "synced"
    ELSE "mismatch"

\* InventoryViewService._determine_raw_sync_status
determine_raw_sync_status(it) ==
    SyncStatus(it.cloud_raw_status # None /\ it.cloud_raw_status[1].exists,
               it.local_raw_status # None /\ it.local_raw_status[1].downloaded,
               raw_data_matches(it))

\* InventoryViewService._determine_ml_sync_status
determine_ml_sync_status(it) ==
    SyncStatus(it.cloud_ml_status # None /\ it.cloud_ml_status[1].exists,
               it.local_ml_status # None /\ it.local_ml_status[1].downloaded,
               ml_data_matches(it))

\* an entry of an issue list: the text and the two numbers it quotes
Issue(text, cloud, local) == [text |-> text, cloud |-> cloud, local |-> local]

\* InventoryViewService._get_raw_issues
get_raw_issues(it) ==
    IF it.raw_sync_status = "cloud_only" THEN <<"Not downloaded locally">>
    ELSE IF it.raw_sync_status = "local_only" THEN <<"Not available in cloud">>
    ELSE IF /\ it.raw_sync_status = "mismatch"
            /\ it.cloud_raw_status # None
            /\ it.local_raw_status # None
    THEN LET cloud == it.cloud_raw_status[1]
             local == it.local_raw_status[1]
         IN  (IF cloud.bag_count # local.bag_count
              THEN <<Issue("Bag count mismatch", cloud.bag_count, local.bag_count)>>
              ELSE <<>>)
             \o (IF cloud.total_size # local.total_size
                 THEN <<Issue("Size mismatch", cloud.total_size, local.total_size)>>
                 ELSE <<>>)
    ELSE <<>>

\* InventoryViewService._get_ml_issues
get_ml_issues(it) ==
    IF it.ml_sync_status = "cloud_only" THEN <<"Not downloaded locally">>
    ELSE IF it.ml_sync_status = "local_only" THEN <<"Not uploaded to cloud">>
    ELSE IF /\ it.ml_sync_status = "mismatch"
            /\ it.cloud_ml_status # None
            /\ it.local_ml_status # None
    THEN LET cloud == it.cloud_ml_status[1]
             local == it.local_ml_status[1]
         IN  IF cloud.total_samples # local.total_samples
             THEN <<Issue("Sample count mismatch", cloud.total_samples, local.total_samples)>>
             ELSE <<>>
    ELSE <<>>

\* _build_complete_inventory, the tags put on one item
Tagged(it) ==
    LET a == [it EXCEPT !.raw_sync_status = determine_raw_sync_status(it)]
        b == [a EXCEPT !.ml_sync_status = determine_ml_sync_status(a)]
        c == [b EXCEPT !.raw_issues = get_raw_issues(b)]
    IN  [c EXCEPT !.ml_issues = get_ml_issues(c)]

\* the cloud buckets as listed under the coordinate
CloudListing == [raw |-> cloudRaw, ml |-> cloudML]

\* dict.get(coord) on a bulk discovery result that has the coordinate or not
StatusIf(present, status) == IF present THEN Some(status) ELSE None

\* objects the ML bucket can hold: frames and labels of a bag named by the cloud
\* convention and of a bag whose name carries the local prefix
WideCloudMLIds == CloudMLIds \cup {<<LocalA, "frames", "f">>, <<LocalA, "labels", "f">>}

\* the two buckets and the two local directories of one data kind hold any
\* files, the other data kind is settled
ItemInit ==
    /\ job = create_transfer_job("raw_download", [all |-> TRUE], "skip")
    /\ \/ /\ cloudRaw \in Stores(CloudRawIds)
          /\ localRaw \in Stores(LocalRawIds)
          /\ cloudML \in Stores({<<CloudA, "labels", "f">>})
          /\ localML = [x \in {<<LocalA, "labels", "f">>} |-> 1]
       \/ /\ cloudRaw \in Stores({CloudA})
          /\ localRaw = [x \in {LocalA} |-> 1]
          /\ cloudML \in Stores(WideCloudMLIds)
          /\ localML \in Stores(LocalMLIds)
    /\ localDirs = DirsOf(localRaw, localML)
    /\ NoRunYet
    /\ Constructed(NoFile)
    /\ reachable = BucketTypes
    /\ NoViewYet

\* _build_complete_inventory, lines 74-86: the item of the coordinate is made
\* of the statuses the four bulk results hold for it, and tagged
TagItem(present) ==
    /\ item = NoItem
    /\ item' = Tagged(InventoryItem(
                   StatusIf(present.cloud_raw, CloudGetRawStatus(CloudListing)),
                   StatusIf(present.local_raw, LocalGetRawStatus),
                   StatusIf(present.cloud_ml, CloudGetMLStatus(CloudListing)),
                   StatusIf(present.local_ml, LocalGetMLStatus)))
    /\ UNCHANGED <<jobVars, storeVars, cacheVars, fileVars, serviceVars,
                   name_trace, inventory_items, view_calls>>

StatusKinds == {"cloud_raw", "local_raw", "cloud_ml", "local_ml"}

ItemNext == \E present \in [StatusKinds -> BOOLEAN] : TagItem(present)

ItemSpec == ItemInit /\ [][ItemNext]_vars

----------------------------------------------------------------------------
(* InventoryViewService: the inventory, built once and filtered *)

\* the filter levels of _filter_inventory
FilterLevels == {"cid", "regionid", "fieldid", "twid", "lbid"}

\* the coordinate the buckets and the local directories hold
TheCoordinate ==
    [cid |-> "c1", regionid |-> "r1", fieldid |-> "f1", twid |-> "t1", lbid |-> "l1",
     timestamp |-> "ts"]

\* a key of a bulk discovery result: the coordinate as a path string, or as a
\* RunCoordinate object
PathKey == [type |-> "str", coord |-> TheCoordinate]
ObjectKey == [type |-> "RunCoordinate", coord |-> TheCoordinate]

\* the cloud's get_all_raw_statuses: the coordinates that hold raw bags, by path
CloudGetAllRawStatuses ==
    LET status == CloudGetRawStatus(CloudListing) IN
    IF status.exists THEN [k \in {PathKey} |-> status] ELSE EmptyDict

\* the cloud's get_all_ml_statuses: the coordinates that hold samples, by path
CloudGetAllMLStatuses ==
    LET status == CloudGetMLStatus(CloudListing) IN
    IF status.exists THEN [k \in {PathKey} |-> status] ELSE EmptyDict

\* models/core.py: RunCoordinate is a dataclass with eq and without frozen or
\* unsafe_hash, so its __hash__ is None
RunCoordinateHashable == FALSE

\* LocalStateService.get_all_raw_statuses: results[coord] = status raises
\* TypeError for an unhashable key, and the coordinate is skipped
LocalGetAllRawStatuses ==
    IF RawDir \in localDirs /\ RunCoordinateHashable
    THEN [k \in {ObjectKey} |-> LocalGetRawStatus]
    ELSE EmptyDict

\* LocalStateService.get_all_ml_statuses
LocalGetAllMLStatuses ==
    IF (\E d \in localDirs : d[1] = "ml") /\ RunCoordinateHashable
    THEN [k \in {ObjectKey} |-> LocalGetMLStatus]
    ELSE EmptyDict

\* RunCoordinate.from_path_str(coord): models/core.py defines no such
\* attribute, the lookup raises AttributeError
from_path_str(key) == [raised |-> TRUE]

\* dict.get(key) on a bulk discovery result
StatusOf(statuses, key) == IF key \in DOMAIN statuses THEN Some(statuses[key]) ELSE None

RECURSIVE ItemsOf(_)
\* _build_complete_inventory, the item loop over all_coords: the items, or the
\* exception a from_path_str call raised
ItemsOf(coords) ==
    IF coords = {} THEN [raised |-> FALSE, items |-> <<>>]
    ELSE LET key == CHOOSE k \in coords : TRUE
             coord == from_path_str(key)
         IN  IF coord.raised THEN [raised |-> TRUE]
             ELSE LET rest == ItemsOf(coords \ {key})
                      it == Tagged(InventoryItem(
                                StatusOf(CloudGetAllRawStatuses, key),
                                StatusOf(LocalGetAllRawStatuses, key),
                                StatusOf(CloudGetAllMLStatuses, key),
                                StatusOf(LocalGetAllMLStatuses, key)))
                  IN  IF rest.raised THEN rest
                      ELSE [raised |-> FALSE,
                            items |-> <<[it EXCEPT !.kind = coord.coord]>> \o rest.items]

\* InventoryViewService._build_complete_inventory
build_complete_inventory ==
    ItemsOf(DOMAIN CloudGetAllRawStatuses \cup DOMAIN CloudGetAllMLStatuses
            \cup DOMAIN LocalGetAllRawStatuses \cup DOMAIN LocalGetAllMLStatuses)

\* InventoryViewService._filter_inventory; an unset level is ""
filter_inventory(items, filters) ==
    Filter(items, LAMBDA it : \A level \in FilterLevels :
                                  filters[level] # "" => it.kind[level] = filters[level])

\* the filters a caller passes
ViewFilters ==
    {[cid |-> c, regionid |-> "", fieldid |-> "", twid |-> "", lbid |-> l] :
        c \in {"", "c1", "c2"}, l \in {""}}

\* InventoryViewService.get_inventory_items
GetInventoryItems(filters) ==
    /\ Len(view_calls) < MaxViewCalls
    /\ LET build == inventory_items = None
           built == build_complete_inventory
           raised == build /\ built.raised
           items_after == IF ~build THEN inventory_items
                          ELSE IF raised THEN None ELSE Some(built.items)
       IN  /\ inventory_items' = items_after
           /\ view_calls' = Append(view_calls,
                  [op |-> "get_inventory_items",
                   filters |-> filters,
                   discovery_calls |-> IF build THEN 4 ELSE 0,
                   cached |-> items_after,
                   returned |-> IF raised THEN <<>>
                                ELSE filter_inventory(items_after[1], filters)])
    /\ UNCHANGED <<jobVars, storeVars, cacheVars, fileVars, serviceVars, name_trace, item>>

\* InventoryViewService.refresh_inventory
ViewRefreshInventory ==
    /\ Len(view_calls) < MaxViewCalls
    /\ inventory_items' = None
    /\ view_calls' = Append(view_calls, [op |-> "refresh_inventory"])
    /\ UNCHANGED <<jobVars, storeVars, cacheVars, fileVars, serviceVars, name_trace, item>>

\* one bag and one sample at most on each side
ViewInit ==
    /\ job = create_transfer_job("raw_download", [all |-> TRUE], "skip")
    /\ cloudRaw \in Stores({CloudA})
    /\ localRaw \in Stores({LocalA})
    /\ cloudML \in Stores({<<CloudA, "labels", "f">>})
    /\ localML \in Stores({<<LocalA, "labels", "f">>})
    /\ localDirs = DirsOf(localRaw, localML)
    /\ NoRunYet
    /\ Constructed(NoFile)
    /\ reachable = BucketTypes
    /\ NoViewYet

ViewNext ==
    \/ \E filters \in ViewFilters : GetInventoryItems(filters)
    \/ ViewRefreshInventory

ViewSpec == ViewInit /\ [][ViewNext]_vars

----------------------------------------------------------------------------
(* Vocabulary of the properties *)

\* a call of execute_operation has returned
Returned == pc = "idle" /\ runs > 0

\* the last call returned a plan without executing it (dry run, or nothing to do)
ReturnedPlanOnly ==
    Returned /\ "plan" \in DOMAIN lastResult.result /\ "results" \notin DOMAIN lastResult.result

\* the last call executed a plan
ReturnedExecution == Returned /\ "results" \in DOMAIN lastResult.result

\* a plan was just made and no file of it has been moved yet
PlanFresh == ReturnedPlanOnly \/ (pc = "transferring" /\ idx = 1)

\* the plan of the call in progress or of the call that returned last
ThePlan == IF pc = "transferring" THEN plan ELSE lastResult.result.plan

Kind == job.operation_type

\* the cloud listing the cache reports
CachedRaw == Get(Inventory(CacheNow), "raw", EmptyDict)
CachedML == Get(Inventory(CacheNow), "ml", EmptyDict)

\* source and target listings of the job: identity -> size
SourceFiles ==
    CASE Kind = "raw_download" -> CachedRaw
      [] Kind = "ml_download" -> CachedML
      [] Kind = "ml_upload" -> localML

TargetFiles ==
    CASE Kind = "raw_download" -> localRaw
      [] Kind = "ml_download" -> localML
      [] Kind = "ml_upload" -> CachedML

\* the store the job writes to
TargetStore ==
    CASE Kind = "raw_download" -> localRaw
      [] Kind = "ml_download" -> localML
      [] Kind = "ml_upload" -> cloudML

\* a source identity in the naming convention of the target (spec 4.4, step 4)
Counterpart(id) ==
    CASE Kind = "raw_download" -> translate_bag_name_cloud_to_local(id)
      [] Kind = "ml_download" -> <<translate_bag_name_cloud_to_local(id[1]), id[2], id[3]>>
      [] Kind = "ml_upload" -> <<translate_bag_name_local_to_cloud(id[1]), id[2], id[3]>>

\* the source identity of an entry of files_to_transfer or files_to_skip
EntryId(e) ==
    CASE Kind = "raw_download" -> e.cloud_name
      [] Kind = "ml_download" -> <<e.cloud_bag_name, e.file_type, e.filename>>
      [] Kind = "ml_upload" -> <<e.local_bag_name, e.file_type, e.filename>>

\* the target path an entry of files_to_transfer is written to
EntryTarget(e) ==
    CASE Kind = "raw_download" -> e.local_name
      [] Kind = "ml_download" -> <<e.local_bag_name, e.file_type, e.filename>>
      [] Kind = "ml_upload" -> <<e.cloud_bag_name, e.file_type, e.filename>>

\* the source identities of a plan list
Ids(list) == {EntryId(list[i]) : i \in 1..Len(list)}

\* a conflicts entry is about the source file id: same name, same two sizes
\* (an ML conflicts entry carries the file name and type, not the bag)
ConflictOf(c, id) ==
    LET src == SourceFiles[id]
        tgt == TargetFiles[Counterpart(id)]
        cloud_size == IF Kind = "ml_upload" THEN tgt ELSE src
        local_size == IF Kind = "ml_upload" THEN src ELSE tgt
    IN /\ c.cloud_size = cloud_size
       /\ c.local_size = local_size
       /\ IF Kind = "raw_download" THEN c.name = id
          ELSE c.file_type = id[2] /\ c.filename = id[3]

HasConflict(p, id) == \E i \in 1..Len(p.conflicts) : ConflictOf(p.conflicts[i], id)

\* the set of files the selection criteria select from the source listing
\* (spec 4.4, step 3)
SelectedSet ==
    LET c == job.selection_criteria
        all == Get(c, "all", FALSE)
        names == Sorted(DOMAIN SourceFiles)
        types == IF "file_types" \in DOMAIN c THEN Range(c.file_types) ELSE Range(FileTypes)
    IN IF Kind = "raw_download"
       THEN IF all THEN DOMAIN SourceFiles
            ELSE IF "bag_indices" \in DOMAIN c
                 THEN {names[i + 1] : i \in {k \in Range(c.bag_indices) : k >= 0 /\ k < Len(names)}}
                 ELSE {}
       ELSE {f \in DOMAIN SourceFiles :
                /\ f[2] \in types
                /\ \/ all
                   \/ "bag_names" \in DOMAIN c /\ f[1] \in Range(c.bag_names)}

\* the source has something to offer (spec 4.4, step 2)
SourceNonEmpty ==
    IF Kind = "raw_download" THEN DOMAIN SourceFiles # {}
    ELSE \E f \in DOMAIN SourceFiles : f[2] = "labels"

\* the target listing holds the counterpart of the source file id
CounterpartExists(id) == Counterpart(id) \in DOMAIN TargetFiles

\* a conflicts entry names the source file id
NamedInConflicts(p, id) ==
    \E i \in 1..Len(p.conflicts) :
        IF Kind = "raw_download" THEN p.conflicts[i].name = id
        ELSE p.conflicts[i].file_type = id[2] /\ p.conflicts[i].filename = id[3]

\* the entries of a plan list that are about the source file id
EntriesOf(list, id) == {i \in 1..Len(list) : EntryId(list[i]) = id}

----------------------------------------------------------------------------
(* Properties *)

C2_SkipEqualIsSkippedWithoutConflict ==
    (PlanFresh /\ job.conflict_resolution = "skip") =>
        \A id \in SelectedSet :
            (CounterpartExists(id) /\ TargetFiles[Counterpart(id)] = SourceFiles[id]) =>
                /\ id \in Ids(ThePlan.files_to_skip)
                /\ id \notin Ids(ThePlan.files_to_transfer)
                /\ ~HasConflict(ThePlan, id)

\* C3: every selected file whose counterpart exists in the target with another
\* size is in files_to_transfer, is not in files_to_skip and has a conflicts
\* entry with reason size_mismatch, under both policies and for the three kinds.
C3_SizeMismatchTransfersAsConflict ==
    PlanFresh =>
        \A id \in SelectedSet :
            (CounterpartExists(id) /\ TargetFiles[Counterpart(id)] # SourceFiles[id]) =>
                /\ id \in Ids(ThePlan.files_to_transfer)
                /\ id \notin Ids(ThePlan.files_to_skip)
                /\ \E i \in 1..Len(ThePlan.conflicts) :
                      /\ ConflictOf(ThePlan.conflicts[i], id)
                      /\ ThePlan.conflicts[i].reason = "size_mismatch"

\* C4: under overwrite, every selected file whose counterpart exists in the
\* target is in files_to_transfer and has an entry in conflicts, whether the
\* sizes are equal or not, for the three kinds.
C4_OverwriteTransfersAsConflict ==
    (PlanFresh /\ job.conflict_resolution = "overwrite") =>
        \A id \in SelectedSet :
            CounterpartExists(id) =>
                /\ id \in Ids(ThePlan.files_to_transfer)
                /\ HasConflict(ThePlan, id)

\* C5: every selected file whose counterpart is not in the target listing is in
\* files_to_transfer with conflict false and has no entry in conflicts, under
\* both policies and for the three kinds.
C5_AbsentTransfersWithoutConflict ==
    PlanFresh =>
        \A id \in SelectedSet :
            ~CounterpartExists(id) =>
                /\ EntriesOf(ThePlan.files_to_transfer, id) # {}
                /\ \A i \in EntriesOf(ThePlan.files_to_transfer, id) :
                      ~ThePlan.files_to_transfer[i].conflict
                /\ id \notin Ids(ThePlan.files_to_skip)
                /\ ~NamedInConflicts(ThePlan, id)

\* C6: the plan partitions the selected source files by identity: each selected
\* file is exactly once in files_to_transfer or files_to_skip, never in both and
\* never twice, and no unselected file is in either list, for any criteria.
C6_PlanPartitionsSelection ==
    PlanFresh =>
        /\ Ids(ThePlan.files_to_transfer) \cup Ids(ThePlan.files_to_skip) = SelectedSet
        /\ \A id \in SelectedSet :
              Cardinality(EntriesOf(ThePlan.files_to_transfer, id))
                  + Cardinality(EntriesOf(ThePlan.files_to_skip, id)) = 1

\* a plan exists: in the call in progress or in the result of the last call
PlanExists == pc = "transferring" \/ (Returned /\ "plan" \in DOMAIN lastResult.result)

RECURSIVE TotalSize(_, _)
\* the sizes of the first n entries of a list, added up
TotalSize(list, n) == IF n = 0 THEN 0 ELSE TotalSize(list, n - 1) + list[n].size

\* C7: in every plan total_files is the number of entries of files_to_transfer
\* and total_size the sum of their sizes; files_to_skip and conflicts add nothing.
C7_TotalsFromTransferList ==
    PlanExists =>
        /\ ThePlan.total_files = Len(ThePlan.files_to_transfer)
        /\ ThePlan.total_size = TotalSize(ThePlan.files_to_transfer,
                                          Len(ThePlan.files_to_transfer))

C7_Witness ==
    /\ PlanExists
    /\ Len(ThePlan.files_to_transfer) >= 2
    /\ ThePlan.total_size >= 3
    /\ ThePlan.files_to_skip # <<>>
    /\ ThePlan.conflicts # <<>>

\* C8: after a run of the job under skip that succeeded, the next run of the
\* same job plans nothing to transfer, for the three kinds.
C8_SecondSkipRunTransfersNothing ==
    [][(/\ Returned
        /\ ~job.dry_run
        /\ lastResult.success
        /\ job.conflict_resolution = "skip"
        /\ runs' = runs + 1
        /\ PlanExists') => ThePlan'.files_to_transfer = <<>>]_vars

\* the records of an execution result that failed
FailedRecords(r) == {i \in 1..Len(r.results) : ~r.results[i].success}

\* record i of an execution result failed the size verification
FailedVerification(r, i) ==
    /\ ~r.results[i].success
    /\ r.results[i].error \in {"Size mismatch", "Size mismatch after download",
                               "Size mismatch after upload"}

\* a record after i succeeded in writing the target path of record i
RewrittenLater(r, i) ==
    \E k \in (i + 1)..Len(r.results) :
        /\ r.results[k].success
        /\ EntryTarget(r.plan.files_to_transfer[k]) = EntryTarget(r.plan.files_to_transfer[i])

\* C9: when exactly one file k of a plan of N files fails and it fails the size
\* verification, all N files were attempted, the summary reports N-1 successful
\* and 1 failed, success and critical are false, and the target holds nothing
\* at the path written for file k (unless a later file of the plan wrote it).
C9_PartialFailureIsolation ==
    LET r == lastResult.result
        N == Len(r.plan.files_to_transfer)
    IN (ReturnedExecution /\ \E k \in 1..N : FailedRecords(r) = {k} /\ FailedVerification(r, k)) =>
          /\ Len(r.results) = N
          /\ r.summary.successful = N - 1
          /\ r.summary.failed = 1
          /\ ~lastResult.success
          /\ ~lastResult.critical
          /\ \A k \in FailedRecords(r) :
                \/ EntryTarget(r.plan.files_to_transfer[k]) \notin DOMAIN TargetStore
                \/ RewrittenLater(r, k)

\* the name an execution record carries for plan entry e
RecordName(e) == IF Kind = "raw_download" THEN e.cloud_name ELSE e.filename

RECURSIVE SuccessfulBytes(_, _)
\* the sizes of the successful records among the first n, added up
SuccessfulBytes(recs, n) ==
    IF n = 0 THEN 0
    ELSE SuccessfulBytes(recs, n - 1) + (IF recs[n].success THEN recs[n].size ELSE 0)

\* C10: an execution result holds one record per planned file in plan order,
\* successful + failed = N = total_files, total_bytes is the sum of the sizes of
\* the successful files, success iff failed = 0, warning iff failed > 0.
C10_ExecutionAccounting ==
    LET r == lastResult.result
        N == Len(r.plan.files_to_transfer)
        bad == Cardinality(FailedRecords(r))
    IN ReturnedExecution =>
          /\ Len(r.results) = N
          /\ \A i \in 1..N :
                /\ r.results[i].file = RecordName(r.plan.files_to_transfer[i])
                /\ r.results[i].success => r.results[i].size = r.plan.files_to_transfer[i].size
          /\ r.summary.failed = bad
          /\ r.summary.successful = N - bad
          /\ r.summary.total_files = N
          /\ r.summary.total_bytes = SuccessfulBytes(r.results, N)
          /\ lastResult.success <=> (r.summary.failed = 0)
          /\ (lastResult.warning # None) <=> (r.summary.failed > 0)

C10_Witness ==
    /\ ReturnedExecution
    /\ Len(lastResult.result.results) >= 3
    /\ lastResult.result.summary.failed = 1
    /\ lastResult.result.summary.total_bytes >= 3

----------------------------------------------------------------------------
(* Job-level failures *)

\* the bucket the job transfers from or to
JobBucket == IF job.operation_type = "raw_download" THEN "raw" ELSE "ml"

\* a step in which execute_operation returns
ReturnStep == pc' = "idle" /\ (pc = "transferring" \/ runs' = runs + 1)

\* C11: a job run while its bucket cannot be reached returns success=false and
\* critical=true, dry run or not, and lists the buckets at most once (no retry).
C11_OutageIsCritical ==
    [][(ReturnStep /\ JobBucket \notin reachable) =>
          /\ ~lastResult'.success
          /\ lastResult'.critical
          /\ rescans' <= rescans + 1]_vars

\* C12: when the source has nothing to offer, execute_operation returns
\* success=false, critical=false and an error message, builds no plan and leaves
\* the stores and local directories unchanged, in dry-run and execute mode.
C12_EmptySourceIsOrdinaryFailure ==
    [][(pc = "idle" /\ runs' = runs + 1 /\ ~SourceNonEmpty') =>
          /\ pc' = "idle"
          /\ ~lastResult'.success
          /\ ~lastResult'.critical
          /\ lastResult'.error # None
          /\ "plan" \notin DOMAIN lastResult'.result
          /\ plan' = NoPlan
          /\ UNCHANGED storeVars]_vars

C12_Witness ==
    /\ Returned
    /\ ~job.dry_run
    /\ ~SourceNonEmpty
    /\ DOMAIN SourceFiles # {}
    /\ lastResult.error = Some("No source data found")
    /\ TargetStore # EmptyDict

\* C13: when the source is non-empty and the criteria select no file, the job
\* returns success=true with an empty plan (total_files 0, total_size 0) and, in
\* execute mode too, starts no transfer and leaves the stores unchanged.
C13_EmptySelectionIsEmptyPlan ==
    [][(pc = "idle" /\ runs' = runs + 1 /\ SourceNonEmpty' /\ SelectedSet' = {}) =>
          /\ pc' = "idle"
          /\ lastResult'.success
          /\ "plan" \in DOMAIN lastResult'.result
          /\ lastResult'.result.plan.files_to_transfer = <<>>
          /\ lastResult'.result.plan.total_files = 0
          /\ lastResult'.result.plan.total_size = 0
          /\ UNCHANGED storeVars]_vars

C13_Witness ==
    /\ Returned
    /\ ~job.dry_run
    /\ SourceNonEmpty
    /\ SelectedSet = {}
    /\ "bag_indices" \in DOMAIN job.selection_criteria
    /\ lastResult.success
    /\ lastResult.result.plan.total_files = 0

----------------------------------------------------------------------------
(* The inventory cache *)

\* the step is a call of the given operation of the CloudInventoryService
CallStep(op) == calls' # calls /\ calls'[Len(calls')].op = op

\* the step is a get_full_inventory call that listed the buckets
RefreshStep == CallStep("get_full_inventory") /\ rescans' = rescans + 1

\* the service was constructed and no call was made on it since
FreshlyConstructed == calls = <<>> \/ calls[Len(calls)].op = "construct"

\* there is no snapshot, or the snapshot is the empty document
CacheEmpty == inventory_cache = None \/ inventory_cache = Some(EmptyDict)

\* the snapshot in memory holds exactly what a listing of the buckets gives now
SnapshotIsScan(snapshot) ==
    /\ DOMAIN snapshot = BucketTypes \cup {"metadata"}
    /\ \A bucket_type \in BucketTypes : snapshot[bucket_type] = ScanBucket(bucket_type)

\* C14: get_full_inventory lists the buckets whenever the cache is empty (no
\* snapshot or an empty document), the stale flag is set or force_refresh is
\* true; in every other state it lists no bucket and keeps the snapshot.
C14_RescanExactlyWhenNeeded ==
    [][CallStep("get_full_inventory") =>
          IF calls'[Len(calls')].force_refresh \/ CacheEmpty \/ is_stale
          THEN rescans' = rescans + 1
          ELSE rescans' = rescans /\ inventory_cache' = inventory_cache]_vars

\* C15: mark_stale sets the stale flag and nothing else: no bucket is listed,
\* snapshot, last_updated and cache file stay as they are, and a second call
\* right after the first changes nothing.
C15_MarkStaleOnlySetsFlag ==
    [][CallStep("mark_stale") =>
          /\ is_stale'
          /\ rescans' = rescans
          /\ inventory_cache' = inventory_cache
          /\ cache_timestamp' = cache_timestamp
          /\ cache_file' = cache_file
          /\ MarkStale(CacheNow') = CacheNow'
          /\ (calls # <<>> /\ calls[Len(calls)].op = "mark_stale") =>
                 UNCHANGED <<cacheVars, fileVars>>]_vars

C15_Witness ==
    /\ Len(calls) >= 2
    /\ calls[Len(calls)].op = "mark_stale"
    /\ calls[Len(calls) - 1].op = "mark_stale"
    /\ is_stale
    /\ inventory_cache # None
    /\ cache_file.kind = "document"

\* C16: a refresh either replaces the snapshot in memory and in the cache file
\* by the newly scanned one, with no entry of the old snapshot, or leaves both
\* the snapshot in memory and the cache file as they were.
C16_RefreshIsAllOrNothing ==
    [][RefreshStep =>
          \/ /\ inventory_cache' # None
             /\ SnapshotIsScan(inventory_cache'[1])
             /\ cache_file' = Document(inventory_cache'[1])
          \/ /\ inventory_cache' = inventory_cache
             /\ cache_file' = cache_file]_vars

C19_CorruptFileIsAbsentFile ==
    (FreshlyConstructed /\ cache_file.kind = "corrupt") =>
        /\ inventory_cache = None
        /\ [inventory_cache |-> inventory_cache, cache_timestamp |-> cache_timestamp]
              = LoadCache(NoFile)
        /\ ~is_stale
        /\ GetFullInventory(CacheNow, FALSE, "ok").rescans = rescans + 1
        /\ GetFullInventory(CacheNow, FALSE, "ok").inventory_cache # None

C19_Witness ==
    /\ calls # <<>>
    /\ calls[Len(calls)].op = "construct"
    /\ cache_file.kind = "corrupt"
    /\ rescans > 0
    /\ inventory_cache = None

\* the cache file is a document whose metadata names another format version or
\* other buckets than the configuration
MetadataMismatch ==
    /\ cache_file.kind = "document"
    /\ "metadata" \in DOMAIN cache_file.data
    /\ \/ cache_file.data.metadata.cache_version # CacheVersion
       \/ cache_file.data.metadata.bucket_names # BucketNames

\* C20: a service constructed on a cache file of another format version or of
\* other buckets has no snapshot, and its next inventory query lists the buckets.
C20_MismatchedFileIsNotUsed ==
    (FreshlyConstructed /\ MetadataMismatch) =>
        /\ inventory_cache = None
        /\ GetFullInventory(CacheNow, FALSE, "ok").rescans = rescans + 1

\* C18: whatever a second process loads from the cache file while the first
\* one refreshes and saves is a complete document (the old or the new one) or
\* the absence of a file, never a partially written file.
C18_ReaderNeverSeesTornFile ==
    reader_read.kind = "loaded" => reader_read.file.kind \in {"absent", "document"}

----------------------------------------------------------------------------
(* Lazy invalidation *)

\* position in the call history of the last mark_stale or construction, 0 if none
LastInvalidation ==
    LET marks == {i \in 1..Len(calls) : calls[i].op \in {"mark_stale", "construct"}}
    IN IF marks = {} THEN 0 ELSE CHOOSE i \in marks : \A j \in marks : j <= i

\* a query made since the last mark_stale of this service saved its snapshot
PersistedSinceMarkStale ==
    /\ LastInvalidation > 0
    /\ calls[LastInvalidation].op = "mark_stale"
    /\ \E i \in (LastInvalidation + 1)..Len(calls) :
          calls[i].op = "get_full_inventory" /\ calls[i].disk = "ok"

\* C26: the query that follows mark_stale lists the buckets exactly once; when
\* its snapshot is saved the stale flag is cleared and the timestamp set, and
\* from then on a query without force_refresh lists no bucket until the next
\* mark_stale.
C26_OneRescanAfterMarkStale ==
    [][CallStep("get_full_inventory") =>
          /\ (calls # <<>> /\ calls[Len(calls)].op = "mark_stale") =>
                /\ rescans' = rescans + 1
                /\ calls'[Len(calls')].disk = "ok" =>
                      /\ ~is_stale'
                      /\ cache_timestamp' = Some(rescans')
                      /\ cache_file' = Document(inventory_cache'[1])
          /\ (PersistedSinceMarkStale /\ ~calls'[Len(calls')].force_refresh) =>
                /\ rescans' = rescans
                /\ UNCHANGED cacheVars]_vars

C26_Witness ==
    /\ Len(calls) = 3
    /\ calls[1].op = "mark_stale"
    /\ calls[2] = Call("get_full_inventory", FALSE, "ok")
    /\ calls[3] = Call("get_full_inventory", FALSE, "ok")
    /\ rescans = 1
    /\ ~is_stale
    /\ cache_timestamp = Some(1)
    /\ inventory_cache # None
    /\ inventory_cache[1].raw # EmptyDict

----------------------------------------------------------------------------
(* Transfers and the inventory cache *)

\* the step is the start of an execute_transfer call
TransferStart == pc = "idle" /\ runs' = runs + 1 /\ ~job'.dry_run

\* the step belongs to the execution of a transfer job
TransferJobStep == TransferStart \/ pc = "transferring"

\* C27, as stated: no step of a transfer job changes the snapshot, the timestamp
\* or the stale flag of the inventory cache.
C27_TransferNeverChangesCache ==
    [][TransferJobStep => UNCHANGED cacheVars]_vars

\* C27, amended: a transfer job changes the inventory cache only by the
\* inventory query it makes before planning (an upload without source data makes
\* none), which refreshes an empty or stale cache; when no refresh is due the snapshot, the timestamp, the stale flag and
\* the cache file are the same before and after, and no step of the transfer
\* loop changes them, whether its file succeeds or fails.
C27_TransferChangesCacheOnlyByItsQuery ==
    [][/\ TransferStart =>
             /\ CacheNow' = CacheAfterQuery \/ UNCHANGED <<cacheVars, fileVars>>
             /\ ~ShouldRefreshCache => UNCHANGED <<cacheVars, fileVars>>
       /\ pc = "transferring" => UNCHANGED <<cacheVars, fileVars>>]_vars

C27_Witness ==
    /\ ReturnedExecution
    /\ runs = 2
    /\ rescans = 1
    /\ Kind = "ml_upload"
    /\ lastResult.success
    /\ lastResult.result.summary.successful > 0
    /\ CachedML # cloudML

----------------------------------------------------------------------------
(* Preview and execution *)

\* what the operation of the job's kind finds and plans in the current state
PreparedNow(j) ==
    CASE j.operation_type = "raw_download" -> RawDownloadPrepare(j)
      [] j.operation_type = "ml_download" -> MLDownloadPrepare(j)
      [] j.operation_type = "ml_upload" -> MLUploadPrepare(j)

----------------------------------------------------------------------------
(* Cleanup after a failed download *)

\* the execution records written so far, or those of the call that returned last
TheResults == IF pc = "transferring" THEN results ELSE lastResult.result.results

\* record i failed and no later record succeeded in writing the same target path
FailedForGood(i) ==
    /\ ~TheResults[i].success
    /\ ~\E k \in (i + 1)..Len(TheResults) :
          /\ TheResults[k].success
          /\ EntryTarget(ThePlan.files_to_transfer[k]) = EntryTarget(ThePlan.files_to_transfer[i])

----------------------------------------------------------------------------
(* Skip leaves identical target files alone *)

\* the target store holds a file at path whose size equals that of a source
\* file it is the counterpart of
IdenticalInTarget(path) ==
    /\ path \in DOMAIN TargetStore
    /\ \E id \in DOMAIN SourceFiles :
          Counterpart(id) = path /\ SourceFiles[id] = TargetStore[path]

\* the paths of the target store the step wrote, replaced or deleted
TouchedPaths ==
    {path \in DOMAIN TargetStore \cup DOMAIN TargetStore' :
        \/ path \notin DOMAIN TargetStore
        \/ path \notin DOMAIN TargetStore'
        \/ TargetStore'[path] # TargetStore[path]}

\* C30: under conflict_resolution=skip, the execution of a job attempts only the
\* entries of its files_to_transfer, and none of them targets a file that, when
\* the job was planned, existed in the target store with the size of its source
\* counterpart; so no such file is written, replaced or deleted.
C30_SkipNeverTouchesIdenticalFiles ==
    [][(pc = "transferring" /\ job.conflict_resolution = "skip") =>
          /\ idx <= Len(plan.files_to_transfer) =>
                TouchedPaths \subseteq {EntryTarget(plan.files_to_transfer[idx])}
          /\ idx > Len(plan.files_to_transfer) => TouchedPaths = {}
          /\ idx = 1 =>
                \A i \in 1..Len(plan.files_to_transfer) :
                    ~IdenticalInTarget(EntryTarget(plan.files_to_transfer[i]))]_vars

----------------------------------------------------------------------------
(* Name translation round trip *)

\* a cloud bag name begins with an underscore
WellFormedCloudName(n) == Len(n) >= 1 /\ n[1] = "_"

\* a local bag name begins with the local prefix "rosbag_"
WellFormedLocalName(n) == Len(n) >= 2 /\ n[1] = "rosbag" /\ n[2] = "_"

\* translation i of the trace was made by the given function
TranslatedBy(i, function) == i <= Len(name_trace) /\ name_trace[i].by = function

\* C24: translating a well-formed cloud name to the local convention and back
\* gives the name again, and so does translating a well-formed local name to
\* the cloud convention and back; either translation returns a name with an
\* unexpected prefix unchanged.
C24_TranslationRoundTrip ==
    \A i \in 1..Len(name_trace) :
        LET n == name_trace[i].name IN
        /\ (TranslatedBy(i + 1, "cloud_to_local") /\ ~WellFormedCloudName(n))
               => name_trace[i + 1].name = n
        /\ (TranslatedBy(i + 1, "local_to_cloud") /\ ~WellFormedLocalName(n))
               => name_trace[i + 1].name = n
        /\ (WellFormedCloudName(n) /\ TranslatedBy(i + 1, "cloud_to_local")
                                   /\ TranslatedBy(i + 2, "local_to_cloud"))
               => name_trace[i + 2].name = n
        /\ (WellFormedLocalName(n) /\ TranslatedBy(i + 1, "local_to_cloud")
                                   /\ TranslatedBy(i + 2, "cloud_to_local"))
               => name_trace[i + 2].name = n

\* a well-formed cloud name went to the local convention, which changed it, and back
C24_Witness ==
    /\ Len(name_trace) = 3
    /\ WellFormedCloudName(name_trace[1].name)
    /\ TranslatedBy(2, "cloud_to_local")
    /\ TranslatedBy(3, "local_to_cloud")
    /\ name_trace[2].name # name_trace[1].name
    /\ WellFormedLocalName(name_trace[2].name)

----------------------------------------------------------------------------
(* Sync status of an inventory item *)

\* the item holds a status of the side and the status says the data is there
CloudRawHasData == item.cloud_raw_status # None /\ item.cloud_raw_status[1].exists
LocalRawHasData == item.local_raw_status # None /\ item.local_raw_status[1].downloaded
CloudMLHasData == item.cloud_ml_status # None /\ item.cloud_ml_status[1].exists
LocalMLHasData == item.local_ml_status # None /\ item.local_ml_status[1].downloaded

\* the local name of a cloud ML file
LocalFileOf(f) == <<translate_bag_name_cloud_to_local(f[1]), f[2], f[3]>>

\* the bags of the two raw sides correspond one to one under the name
\* translation
RawBagsCorrespond(cloud, local) ==
    /\ Cardinality(DOMAIN cloud) = Cardinality(DOMAIN local)
    /\ {translate_bag_name_cloud_to_local(n) : n \in DOMAIN cloud} = DOMAIN local

\* the bags and the files of the two ML sides correspond one to one under the
\* name translation
MLFilesCorrespond(cloud, local) ==
    /\ Cardinality({f[1] : f \in DOMAIN cloud}) = Cardinality({f[1] : f \in DOMAIN local})
    /\ {LocalFileOf(f) : f \in DOMAIN cloud} = DOMAIN local

\* the raw sides of the item are deep-equal after name translation
RawDeepEqual ==
    LET cloud == item.cloud_raw_status[1].bag_sizes
        local == item.local_raw_status[1].bag_sizes
    IN  /\ RawBagsCorrespond(cloud, local)
        /\ \A n \in DOMAIN cloud : local[translate_bag_name_cloud_to_local(n)] = cloud[n]

\* the ML sides of the item are deep-equal after name translation
MLDeepEqual ==
    LET cloud == item.cloud_ml_status[1].bag_files
        local == item.local_ml_status[1].bag_files
    IN  /\ MLFilesCorrespond(cloud, local)
        /\ \A f \in DOMAIN cloud : local[LocalFileOf(f)] = cloud[f]

\* the verdict the sync-status decision asks for
Verdict(cloud_has_data, local_has_data, deep_equal) ==
    CASE ~cloud_has_data /\ ~local_has_data -> "missing"
      [] cloud_has_data /\ ~local_has_data -> "cloud_only"
      [] ~cloud_has_data /\ local_has_data -> "local_only"
      [] cloud_has_data /\ local_has_data -> IF deep_equal THEN "synced" ELSE "mismatch"

\* statuses of the other data kind an item can hold
OtherStatuses(Status(_, _, _), Content(_)) ==
    {None} \cup {Some(Status(Content(d) > 0, Content(d), d)) :
                    d \in {EmptyDict, [x \in {<<CloudA, "labels", "f">>} |-> 1],
                           [x \in {<<LocalA, "labels", "f">>} |-> 2]}}

\* C21: for each data kind, the sync status an item is tagged with is missing
\* when neither side has data, cloud_only when only the cloud has, local_only
\* when only local has, synced when both have and are deep-equal after name
\* translation, mismatch when both have and differ; the raw status does not
\* depend on the ML statuses nor the ML status on the raw ones, and it is
\* never left as unknown.
C21_SyncStatusIsTheVerdict ==
    item.kind = "item" =>
        /\ item.raw_sync_status = Verdict(CloudRawHasData, LocalRawHasData, RawDeepEqual)
        /\ item.ml_sync_status = Verdict(CloudMLHasData, LocalMLHasData, MLDeepEqual)
        /\ \A c \in OtherStatuses(CloudMLStatus, LabelCount),
              l \in OtherStatuses(LocalMLStatus, LabelCount) :
               determine_raw_sync_status(
                   [item EXCEPT !.cloud_ml_status = c, !.local_ml_status = l])
                   = item.raw_sync_status
        /\ \A present \in [{"cloud_raw", "local_raw"} -> BOOLEAN] :
               determine_ml_sync_status(
                   [item EXCEPT !.cloud_raw_status = IF present.cloud_raw THEN @ ELSE None,
                                !.local_raw_status = IF present.local_raw THEN @ ELSE None])
                   = item.ml_sync_status
        /\ "unknown" \notin {item.raw_sync_status, item.ml_sync_status}

----------------------------------------------------------------------------
(* Reconciliation symmetry *)

\* exactly one file of the two sides differs in size, by one byte
OneByteApart(cloud, local, LocalOf(_)) ==
    \E f \in DOMAIN cloud :
        /\ local[LocalOf(f)] - cloud[f] \in {1, -1}
        /\ \A g \in DOMAIN cloud \ {f} : local[LocalOf(g)] = cloud[g]

\* C22: an item whose two sides are identical is synced and has an empty issue
\* list; an item whose two sides are identical but for the size of one file,
\* which differs by one byte, is a mismatch with a non-empty issue list, for
\* raw data and for ML data alike.
C22_OneByteMakesAMismatchWithIssues ==
    item.kind = "item" =>
        /\ (CloudRawHasData /\ LocalRawHasData) =>
               LET cloud == item.cloud_raw_status[1].bag_sizes
                   local == item.local_raw_status[1].bag_sizes
               IN  /\ RawDeepEqual =>
                          item.raw_sync_status = "synced" /\ item.raw_issues = <<>>
                   /\ (/\ RawBagsCorrespond(cloud, local)
                       /\ OneByteApart(cloud, local, translate_bag_name_cloud_to_local)) =>
                          item.raw_sync_status = "mismatch" /\ item.raw_issues # <<>>
        /\ (CloudMLHasData /\ LocalMLHasData) =>
               LET cloud == item.cloud_ml_status[1].bag_files
                   local == item.local_ml_status[1].bag_files
               IN  /\ MLDeepEqual =>
                          item.ml_sync_status = "synced" /\ item.ml_issues = <<>>
                   /\ (/\ MLFilesCorrespond(cloud, local)
                       /\ OneByteApart(cloud, local, LocalFileOf)) =>
                          item.ml_sync_status = "mismatch" /\ item.ml_issues # <<>>

----------------------------------------------------------------------------
(* The inventory is built once between refreshes *)

\* call i is a get_inventory_items call
IsGet(i) == view_calls[i].op = "get_inventory_items"

\* the get_inventory_items calls before call j with no refresh_inventory in between
GetsSinceRefresh(j) ==
    {i \in 1..(j - 1) : IsGet(i) /\ \A k \in (i + 1)..(j - 1) : IsGet(k)}

\* the items of a built list that match every level the filters set
Matching(items, filters) ==
    SelectSeq(items, LAMBDA it : \A level \in FilterLevels :
                                     filters[level] = "" \/ it.kind[level] = filters[level])

\* C23: the inventory is built at most once between refreshes: a
\* get_inventory_items call that follows another one with no refresh_inventory
\* in between makes none of the four bulk discovery calls and returns exactly
\* the items built by the first of them that match every non-empty filter
\* level; the first call of all and the first call after a refresh_inventory
\* build once, with four discovery calls.
C23_BuiltOnceBetweenRefreshes ==
    \A j \in 1..Len(view_calls) :
        IsGet(j) =>
            IF GetsSinceRefresh(j) = {}
            THEN view_calls[j].discovery_calls = 4
            ELSE LET first == CHOOSE i \in GetsSinceRefresh(j) :
                                  \A k \in GetsSinceRefresh(j) : i <= k
                 IN  /\ view_calls[j].discovery_calls = 0
                     /\ view_calls[first].cached # None
                     /\ view_calls[j].returned
                            = Matching(view_calls[first].cached[1], view_calls[j].filters)

----------------------------------------------------------------------------
(* The three operation kinds classify alike *)

OperationTypes == {"raw_download", "ml_download", "ml_upload"}

\* the size of a file in a listing, if it is listed
SizeAt(store, id) == IF id \in DOMAIN store THEN Some(store[id]) ELSE None

\* the listing that holds the file with that size, or nothing
ListingOf(id, size) == IF size = None THEN EmptyDict ELSE [x \in {id} |-> size[1]]

\* the one file of the source and of the target of the job, whatever its kind
AbstractSource ==
    CASE job.operation_type = "raw_download" -> SizeAt(cloudRaw, CloudA)
      [] job.operation_type = "ml_download" -> SizeAt(cloudML, <<CloudA, "labels", "f">>)
      [] job.operation_type = "ml_upload" -> SizeAt(localML, <<LocalA, "labels", "f">>)
AbstractTarget ==
    CASE job.operation_type = "raw_download" -> SizeAt(localRaw, LocalA)
      [] job.operation_type = "ml_download" -> SizeAt(localML, <<LocalA, "labels", "f">>)
      [] job.operation_type = "ml_upload" -> SizeAt(cloudML, <<CloudA, "labels", "f">>)

\* the local statuses of a listing
LocalRawListing(store) ==
    IF DOMAIN store = {} THEN LocalRawStatus(FALSE, 0, <<>>, EmptyDict, 0)
    ELSE LocalRawStatus(TRUE, Cardinality(DOMAIN store), Sorted(DOMAIN store), store,
                        SumOver(store, DOMAIN store))
LocalMLListing(store) == LocalMLStatus(LabelCount(store) > 0, LabelCount(store), store)

\* the plan an operation of the given kind makes of the job's selection and
\* policy when its source and its target list the file with these sizes
PlanAs(kind, source, target) ==
    LET j == [job EXCEPT !.operation_type = kind] IN
    CASE kind = "raw_download" ->
           LET source_state == CloudGetRawStatus([raw |-> ListingOf(CloudA, source)])
               target_state == LocalRawListing(ListingOf(LocalA, target))
           IN  RawCreateOperationPlan(
                   j, RawApplySelectionFilter(source_state, j.selection_criteria),
                   source_state, target_state)
      [] kind = "ml_download" ->
           LET source_state ==
                   CloudGetMLStatus([ml |-> ListingOf(<<CloudA, "labels", "f">>, source)])
               target_state == LocalMLListing(ListingOf(<<LocalA, "labels", "f">>, target))
           IN  MLDownloadCreateOperationPlan(
                   j, MLDownloadApplySelectionFilter(source_state, j.selection_criteria),
                   source_state, target_state)
      [] kind = "ml_upload" ->
           LET source_state == LocalMLListing(ListingOf(<<LocalA, "labels", "f">>, source))
               target_state ==
                   CloudGetMLStatus([ml |-> ListingOf(<<CloudA, "labels", "f">>, target)])
           IN  MLUploadCreateOperationPlan(
                   j, MLUploadApplySelectionFilter(source_state, j.selection_criteria),
                   source_state, target_state)

\* where a plan puts the file, and the reasons of its conflicts entries
Classification(p) ==
    [to_transfer |-> Len(p.files_to_transfer),
     to_skip |-> Len(p.files_to_skip),
     conflicts |-> [i \in 1..Len(p.conflicts) |-> p.conflicts[i].reason]]

\* C25: the three operation kinds classify identically: for the same source
\* listing, target listing, selection and conflict policy, raw download, ML
\* download and ML upload put the file in the same plan list and record a
\* conflicts entry for it in the same cases, with the same reason.
C25_KindsClassifyAlike ==
    \A kind \in OperationTypes :
        Classification(PlanAs(kind, AbstractSource, AbstractTarget))
            = Classification(PlanAs(job.operation_type, AbstractSource, AbstractTarget))

====
